---- MODULE Spec2Model ----
(***************************************************************************)
(* Model of the CPS calculator (cps_tool/calculator.py) and of its working *)
(* calendar (cps_tool/calendar.py).                                        *)
(*                                                                         *)
(* Instants are integers: the number of quarter hours since 00:00 of a     *)
(* Monday (day 0).  A duration or a lag is the number of working quarter   *)
(* hours it stands for: one day of duration_days is hours_per_day ticks,   *)
(* so that "duration_days * hours_per_day" is the number itself and the    *)
(* 1e-9 tolerance of the code is equality with 0.                          *)
(***************************************************************************)
EXTENDS Integers, Sequences, FiniteSets, TLC

None == 0 - 1

TicksPerDay == 24 * 4

At(day, hour, minute) == day * TicksPerDay + hour * 4 + (minute \div 15)

(***************************************************************************)
(* WorkCalendar                                                            *)
(***************************************************************************)
workday_start == 32
workday_end == 68
weekend_days == {5, 6}
hours_per_day == workday_end - workday_start

DateOf(moment) == moment \div TicksPerDay
TimeOf(moment) == moment % TicksPerDay
Weekday(date) == date % 7
Combine(date, time) == date * TicksPerDay + time

Max2(a, b) == IF a >= b THEN a ELSE b
Min2(a, b) == IF a <= b THEN a ELSE b

RECURSIVE _next_workday_start(_)
_next_workday_start(candidate) ==
    IF Weekday(candidate) \in weekend_days
    THEN _next_workday_start(candidate + 1)
    ELSE Combine(candidate, workday_start)

RECURSIVE _previous_workday_end(_)
_previous_workday_end(candidate) ==
    IF Weekday(candidate) \in weekend_days
    THEN _previous_workday_end(candidate - 1)
    ELSE Combine(candidate, workday_end)

align_start(moment) ==
    IF Weekday(DateOf(moment)) \in weekend_days
    THEN _next_workday_start(DateOf(moment))
    ELSE IF TimeOf(moment) >= workday_end
    THEN _next_workday_start(DateOf(moment) + 1)
    ELSE IF TimeOf(moment) < workday_start
    THEN Combine(DateOf(moment), workday_start)
    ELSE moment

align_finish(moment) ==
    IF Weekday(DateOf(moment)) \in weekend_days
    THEN _previous_workday_end(DateOf(moment))
    ELSE IF TimeOf(moment) < workday_start
    THEN Combine(DateOf(moment), workday_start)
    ELSE IF TimeOf(moment) > workday_end
    THEN Combine(DateOf(moment), workday_end)
    ELSE moment

\* The while loop of add_work_hours (calendar.py 71-78).
RECURSIVE AddLoop(_, _)
AddLoop(current, remaining) ==
    IF remaining <= 0 THEN current
    ELSE LET available == Combine(DateOf(current), workday_end) - current
         IN IF remaining <= available
            THEN current + remaining
            ELSE AddLoop(_next_workday_start(DateOf(current) + 1), remaining - available)

\* A faulty variant of SubLoop: the day before is taken as a working day.
RECURSIVE SubLoop_any_day(_, _)
SubLoop_any_day(current, remaining) ==
    IF remaining <= 0 THEN current
    ELSE LET available == current - Combine(DateOf(current), workday_start)
         IN IF remaining <= available
            THEN current - remaining
            ELSE SubLoop_any_day(Combine(DateOf(current) - 1, workday_end),
                     remaining - available)

\* The while loop of subtract_work_hours (calendar.py 93-100).
RECURSIVE SubLoop(_, _)
SubLoop(current, remaining) ==
    IF remaining <= 0 THEN current
    ELSE LET available == current - Combine(DateOf(current), workday_start)
         IN IF remaining <= available
            THEN current - remaining
            ELSE SubLoop(_previous_workday_end(DateOf(current) - 1), remaining - available)

RECURSIVE add_work_hours(_, _), subtract_work_hours(_, _)
add_work_hours(start, hours) ==
    IF hours = 0 THEN align_start(start)
    ELSE IF hours < 0 THEN subtract_work_hours(start, 0 - hours)
    ELSE AddLoop(align_start(start), hours)

subtract_work_hours(finish, hours) ==
    IF hours = 0 THEN align_finish(finish)
    ELSE IF hours < 0 THEN add_work_hours(finish, 0 - hours)
    ELSE SubLoop(align_finish(finish), hours)

add_work_duration(start, duration_days) ==
    IF duration_days = 0 THEN align_start(start)
    ELSE add_work_hours(start, duration_days)

subtract_work_duration(finish, duration_days) ==
    IF duration_days = 0 THEN align_finish(finish)
    ELSE subtract_work_hours(finish, duration_days)

\* The for loop of _count_workdays_between (calendar.py 151-154).
RECURSIVE CountRemainder(_, _)
CountRemainder(day, remainder) ==
    IF remainder = 0 THEN 0
    ELSE (IF Weekday(day) \notin weekend_days THEN 1 ELSE 0)
         + CountRemainder(day + 1, remainder - 1)

\* A faulty variant of _count_workdays_between: the full weeks are left out.
_count_workdays_between_remainder(start_date, end_date) ==
    IF start_date >= end_date THEN 0
    ELSE LET total_days == end_date - start_date
             full_weeks == total_days \div 7
             remainder == total_days % 7
         IN CountRemainder(start_date + full_weeks * 7, remainder)

_count_workdays_between(start_date, end_date) ==
    IF start_date >= end_date THEN 0
    ELSE LET total_days == end_date - start_date
             full_weeks == total_days \div 7
             remainder == total_days % 7
         IN full_weeks * (7 - Cardinality(weekend_days))
            + CountRemainder(start_date + full_weeks * 7, remainder)

work_hours_between(start, finish) ==
    IF finish <= start THEN 0
    ELSE LET current == align_start(start)
             end == align_finish(finish)
         IN IF end <= current THEN 0
            ELSE IF DateOf(current) = DateOf(end) THEN end - current
            ELSE (Combine(DateOf(current), workday_end) - current)
                 + _count_workdays_between(DateOf(current) + 1, DateOf(end)) * hours_per_day
                 + (end - Combine(DateOf(end), workday_start))

(***************************************************************************)
(* Bounds of the inputs                                                    *)
(***************************************************************************)
MaxTasks == 3
MaxDeps == 3

UidUniverse == 1..(MaxTasks + 1)

Range(s) == {s[i] : i \in 1..Len(s)}

Front(s) == SubSeq(s, 1, Len(s) - 1)

MapIndex(s, Op(_)) == [k \in 1..Len(s) |-> Op(s[k])]

(***************************************************************************)
(* models.py: a DependencySpec is [predecessor_uid, relation_type,         *)
(* lag_days]; a TaskSpec is [uid, name, duration_days, dependencies,       *)
(* is_milestone, constraint_type, constraint_date, original_start] (None   *)
(* is an absent date, "" an absent string; the name of task u is "Task u", *)
(* is_milestone keeps its default).  TaskSpec objects live in the heap     *)
(* (object id -> TaskSpec): the caller's list task_specs and the list      *)
(* tasks of calculate_schedule are sequences of object ids.                *)
(***************************************************************************)
DependencySpec(p, r, l) ==
    [predecessor_uid |-> p, relation_type |-> r, lag_days |-> l]

TaskSpec(u, dur, deps, ct, cd, os) ==
    [uid |-> u, name |-> <<"Task", u>>, duration_days |-> dur,
     dependencies |-> deps, is_milestone |-> FALSE,
     constraint_type |-> ct, constraint_date |-> cd, original_start |-> os]

\* (dependency.relation_type or "FS").upper(), on upper-case inputs
RelationUpper(dependency) ==
    IF dependency.relation_type = "" THEN "FS" ELSE dependency.relation_type

(***************************************************************************)
(* calculator.py: graph normalisation                                      *)
(***************************************************************************)
\* A faulty variant of _clone_tasks: the list returned holds the caller's own objects.
_clone_tasks_shared(h, specs) == [heap |-> h, tasks |-> specs]

\* dataclasses.replace with a fresh dependency list: one new object per task
_clone_tasks(h, specs) ==
    LET n == Len(specs)
        base == Cardinality(DOMAIN h)
        fresh == [i \in 1..n |-> base + i]
    IN [heap |-> [o \in (DOMAIN h) \cup Range(fresh) |->
                    IF o \in DOMAIN h THEN h[o]
                    ELSE LET src == h[specs[o - base]]
                         IN TaskSpec(src.uid, src.duration_days,
                                MapIndex(src.dependencies,
                                    LAMBDA d : DependencySpec(d.predecessor_uid,
                                                   d.relation_type, d.lag_days)),
                                src.constraint_type, src.constraint_date,
                                src.original_start)],
        tasks |-> fresh]

_ensure_task_lookup(h, ts) ==
    IF \E i, j \in 1..Len(ts) : i < j /\ h[ts[i]].uid = h[ts[j]].uid
    THEN [raised |-> TRUE, lookup |-> <<>>]
    ELSE IF ts = <<>>
    THEN [raised |-> TRUE, lookup |-> <<>>]
    ELSE [raised |-> FALSE,
          lookup |-> [u \in {h[o].uid : o \in Range(ts)} |->
                        CHOOSE o \in Range(ts) : h[o].uid = u]]

\* A faulty variant of DependencyIssue: the issue names the missing predecessor
\* as the task.
DependencyIssue_of_predecessor(task, dependency) ==
    [task_uid |-> dependency.predecessor_uid,
     dependency |-> DependencySpec(dependency.predecessor_uid,
                        dependency.relation_type, dependency.lag_days),
     reason |-> "Missing predecessor task"]

DependencyIssue(task, dependency) ==
    [task_uid |-> task.uid,
     dependency |-> DependencySpec(dependency.predecessor_uid,
                        dependency.relation_type, dependency.lag_days),
     reason |-> "Missing predecessor task"]

\* The loop over tasks of _remove_missing_dependencies, from task i on.
RECURSIVE RemoveMissingFrom(_, _, _, _)
RemoveMissingFrom(h, ts, lookup, i) ==
    IF i > Len(ts) THEN [heap |-> h, issues |-> <<>>]
    ELSE LET task == h[ts[i]]
             cleaned == SelectSeq(task.dependencies,
                            LAMBDA d : d.predecessor_uid \in DOMAIN lookup)
             missing == SelectSeq(task.dependencies,
                            LAMBDA d : d.predecessor_uid \notin DOMAIN lookup)
             rest == RemoveMissingFrom([h EXCEPT ![ts[i]].dependencies = cleaned],
                        ts, lookup, i + 1)
         IN [heap |-> rest.heap,
             issues |-> MapIndex(missing, LAMBDA d : DependencyIssue(task, d))
                        \o rest.issues]

_remove_missing_dependencies(h, ts, lookup) == RemoveMissingFrom(h, ts, lookup, 1)

\* Every (predecessor_uid, task.uid, dependency) in the order _build_successors
\* meets them: tasks in list order, each task's dependencies in list order.
RECURSIVE SuccessorRecords(_, _, _)
SuccessorRecords(h, ts, i) ==
    IF i > Len(ts) THEN <<>>
    ELSE MapIndex(h[ts[i]].dependencies,
             LAMBDA d : [pred |-> d.predecessor_uid, uid |-> h[ts[i]].uid,
                         dependency |-> d])
         \o SuccessorRecords(h, ts, i + 1)

\* successors.get(uid, []) for every uid
_build_successors(h, ts) ==
    LET records == SuccessorRecords(h, ts, 1)
    IN [u \in UidUniverse |->
          MapIndex(SelectSeq(records, LAMBDA r : r.pred = u),
              LAMBDA r : [uid |-> r.uid, dependency |-> r.dependency])]

IndexOf(s, x) == CHOOSE i \in 1..Len(s) : s[i] = x /\ \A j \in 1..(i - 1) : s[j] # x

\* The while loop of _find_cycle (calculator.py 155-180): traversal_stack holds
\* <<uid, position of the iterator>>.
RECURSIVE DfsLoop(_, _, _, _, _)
DfsLoop(successors, visited, on_stack, traversal_stack, path) ==
    IF traversal_stack = <<>>
    THEN [found |-> FALSE, visited |-> visited]
    ELSE LET top == Len(traversal_stack)
             current_uid == traversal_stack[top][1]
             position == traversal_stack[top][2]
             records == successors[current_uid]
         IN IF position > Len(records)
            THEN DfsLoop(successors, visited, on_stack \ {current_uid},
                     Front(traversal_stack), Front(path))
            ELSE LET successor_uid == records[position].uid
                     dependency == records[position].dependency
                     advanced == [traversal_stack EXCEPT ![top] =
                                     <<current_uid, position + 1>>]
                 IN IF successor_uid \notin visited
                    THEN DfsLoop(successors, visited \cup {successor_uid},
                             on_stack \cup {successor_uid},
                             Append(advanced, <<successor_uid, 1>>),
                             Append(path, successor_uid))
                    ELSE IF successor_uid \in on_stack
                    THEN [found |-> TRUE,
                          cycle |-> SubSeq(path, IndexOf(path, successor_uid), Len(path))
                                    \o <<successor_uid>>,
                          successor_uid |-> successor_uid,
                          dependency |-> dependency]
                    ELSE DfsLoop(successors, visited, on_stack, advanced, path)

\* The for loop of _find_cycle over the roots, from task i on.
RECURSIVE FindCycleFrom(_, _, _, _, _)
FindCycleFrom(h, ts, successors, visited, i) ==
    IF i > Len(ts) THEN [found |-> FALSE, visited |-> visited]
    ELSE LET uid == h[ts[i]].uid
         IN IF uid \in visited
            THEN FindCycleFrom(h, ts, successors, visited, i + 1)
            ELSE LET walk == DfsLoop(successors, visited \cup {uid}, {uid},
                                 <<<<uid, 1>>>>, <<uid>>)
                 IN IF walk.found THEN walk
                    ELSE FindCycleFrom(h, ts, successors, walk.visited, i + 1)

\* A faulty variant of _find_cycle: only the first task is taken as a root.
_find_cycle_first_root(h, ts) ==
    IF ts = <<>> THEN [found |-> FALSE, visited |-> {}]
    ELSE DfsLoop(_build_successors(h, ts), {h[ts[1]].uid}, {h[ts[1]].uid},
             <<<<h[ts[1]].uid, 1>>>>, <<h[ts[1]].uid>>)

_find_cycle(h, ts) == FindCycleFrom(h, ts, _build_successors(h, ts), {}, 1)

\* The position of the first dependency of the list that matches `dependency`
\* (calculator.py 203-216), 0 when none does.
FirstMatch(dependencies, dependency) ==
    LET matches == {k \in 1..Len(dependencies) :
                      /\ dependencies[k].predecessor_uid = dependency.predecessor_uid
                      /\ RelationUpper(dependencies[k]) = RelationUpper(dependency)
                      /\ dependencies[k].lag_days = dependency.lag_days}
    IN IF matches = {} THEN 0
       ELSE CHOOSE k \in matches : \A m \in matches : k <= m

\* A faulty variant of RemoveAt: every dependency equal to the k-th goes with it.
RemoveAt_all_equal(s, k) == SelectSeq(s, LAMBDA d : d # s[k])

RemoveAt(s, k) == SubSeq(s, 1, k - 1) \o SubSeq(s, k + 1, Len(s))

\* A faulty variant of CycleResolution: the cycle is reported without the uid that
\* closes it.
CycleResolution_open(cycle_uids, task, removed) ==
    [cycle_task_uids |-> Front(cycle_uids),
     removed_from_task_uid |-> task.uid,
     removed_dependency |-> DependencySpec(removed.predecessor_uid,
                                removed.relation_type, removed.lag_days)]

CycleResolution(cycle_uids, task, removed) ==
    [cycle_task_uids |-> cycle_uids,
     removed_from_task_uid |-> task.uid,
     removed_dependency |-> DependencySpec(removed.predecessor_uid,
                                removed.relation_type, removed.lag_days)]

\* One iteration of the while True loop of _resolve_cycles (calculator.py
\* 192-232): again is FALSE when the iteration leaves the loop.
ResolveIteration(h, ts, resolutions) ==
    LET cycle_info == _find_cycle(h, ts)
        stop == [again |-> FALSE, heap |-> h, resolutions |-> resolutions]
    IN IF ~cycle_info.found THEN stop
       ELSE LET holders == {o \in Range(ts) : h[o].uid = cycle_info.successor_uid}
            IN IF holders = {} THEN stop
               ELSE LET successor_task == CHOOSE o \in holders : TRUE
                        k == FirstMatch(h[successor_task].dependencies,
                                 cycle_info.dependency)
                    IN IF k = 0 THEN stop
                       ELSE [again |-> TRUE,
                             heap |-> [h EXCEPT ![successor_task].dependencies =
                                         RemoveAt(h[successor_task].dependencies, k)],
                             resolutions |->
                                 Append(resolutions,
                                     CycleResolution(cycle_info.cycle, h[successor_task],
                                         h[successor_task].dependencies[k]))]

\* _write_cycle_adjusted_tasks: the file it creates under outputs/ (its name
\* carries the time of the call)
_write_cycle_adjusted_tasks(fs) ==
    [files |-> fs \cup {"outputs/cycle_resolved_cps.csv"},
     path |-> "outputs/cycle_resolved_cps.csv"]

\* The while loop of _topological_order (calculator.py 249-255), with the
\* for loop over the successors of the popped uid folded from record k on.
RECURSIVE DecrementFrom(_, _, _, _)
DecrementFrom(records, k, indegree, ready) ==
    IF k > Len(records) THEN [indegree |-> indegree, ready |-> ready]
    ELSE LET s == records[k].uid
             lowered == [indegree EXCEPT ![s] = @ - 1]
         IN DecrementFrom(records, k + 1, lowered,
                IF lowered[s] = 0 THEN ready \cup {s} ELSE ready)

RECURSIVE KahnLoop(_, _, _, _)
KahnLoop(successors, indegree, ready, order) ==
    IF ready = {} THEN order
    ELSE LET uid == CHOOSE u \in ready : \A v \in ready : u <= v
             step == DecrementFrom(successors[uid], 1, indegree, ready \ {uid})
         IN KahnLoop(successors, step.indegree, step.ready, Append(order, uid))

\* A faulty variant of _topological_order: the ready uids are a queue in the order of
\* the list instead of a heap.
RECURSIVE DecrementQueue(_, _, _, _)
DecrementQueue(records, k, indegree, ready) ==
    IF k > Len(records) THEN [indegree |-> indegree, ready |-> ready]
    ELSE LET s == records[k].uid
             lowered == [indegree EXCEPT ![s] = @ - 1]
         IN DecrementQueue(records, k + 1, lowered,
                IF lowered[s] = 0 THEN Append(ready, s) ELSE ready)

RECURSIVE KahnQueue(_, _, _, _)
KahnQueue(successors, indegree, ready, order) ==
    IF ready = <<>> THEN order
    ELSE LET step == DecrementQueue(successors[Head(ready)], 1, indegree, Tail(ready))
         IN KahnQueue(successors, step.indegree, step.ready, Append(order, Head(ready)))

_topological_order_queue(h, ts) ==
    LET indegree == [u \in {h[o].uid : o \in Range(ts)} |->
                        Len(h[CHOOSE o \in Range(ts) : h[o].uid = u].dependencies)]
        ready == SelectSeq([i \in 1..Len(ts) |-> h[ts[i]].uid],
                     LAMBDA u : indegree[u] = 0)
        order == KahnQueue(_build_successors(h, ts), indegree, ready, <<>>)
    IN IF Len(order) # Len(ts)
       THEN [raised |-> TRUE, order |-> <<>>]
       ELSE [raised |-> FALSE, order |-> order]

\* A faulty variant of _topological_order: the indegree counts the distinct predecessors
\* of a task instead of its dependencies.
_topological_order_distinct(h, ts) ==
    LET indegree == [u \in {h[o].uid : o \in Range(ts)} |->
                        Cardinality({d.predecessor_uid :
                            d \in Range(h[CHOOSE o \in Range(ts) : h[o].uid = u].dependencies)})]
        ready == {u \in DOMAIN indegree : indegree[u] = 0}
        order == KahnLoop(_build_successors(h, ts), indegree, ready, <<>>)
    IN IF Len(order) # Len(ts)
       THEN [raised |-> TRUE, order |-> <<>>]
       ELSE [raised |-> FALSE, order |-> order]

_topological_order(h, ts) ==
    LET indegree == [u \in {h[o].uid : o \in Range(ts)} |->
                        Len(h[CHOOSE o \in Range(ts) : h[o].uid = u].dependencies)]
        ready == {u \in DOMAIN indegree : indegree[u] = 0}
        order == KahnLoop(_build_successors(h, ts), indegree, ready, <<>>)
    IN IF Len(order) # Len(ts)
       THEN [raised |-> TRUE, order |-> <<>>]
       ELSE [raised |-> FALSE, order |-> order]

(***************************************************************************)
(* calculator.py: the schedule                                             *)
(***************************************************************************)
SetMin(S) == CHOOSE x \in S : \A y \in S : x <= y
SetMax(S) == CHOOSE x \in S : \A y \in S : x >= y

\* None when no task carries a constraint date or an original start
_infer_project_start(h, ts) ==
    LET candidates == {h[o].constraint_date : o \in {t \in Range(ts) : h[t].constraint_date # None}}
                      \cup {h[o].original_start : o \in {t \in Range(ts) : h[t].original_start # None}}
    IN IF candidates = {} THEN None ELSE SetMin(candidates)

\* A faulty variant of _apply_constraints that moves only the finish of a
\* must-finish-on task and leaves its start where the dependencies put it.
_apply_constraints_keep_start(spec, start, finish) ==
    IF spec.constraint_type \in {"MUST_FINISH_ON", "MFO"} /\ spec.constraint_date # None
    THEN [start |-> start, finish |-> align_finish(spec.constraint_date)]
    ELSE [start |-> start, finish |-> finish]

_apply_constraints(spec, start, finish) ==
    LET constraint_type == spec.constraint_type
        constraint_date == spec.constraint_date
    IN IF constraint_type \in {"MUST_START_ON", "MSO"} /\ constraint_date # None
       THEN LET s == align_start(constraint_date)
            IN [start |-> s, finish |-> add_work_duration(s, spec.duration_days)]
       ELSE IF constraint_type \in {"START_NO_EARLIER_THAN", "SNET"} /\ constraint_date # None
       THEN LET s == Max2(start, align_start(constraint_date))
            IN [start |-> s, finish |-> add_work_duration(s, spec.duration_days)]
       ELSE IF constraint_type \in {"MUST_FINISH_ON", "MFO"} /\ constraint_date # None
       THEN LET f == align_finish(constraint_date)
            IN [start |-> subtract_work_duration(f, spec.duration_days), finish |-> f]
       ELSE IF constraint_type \in {"FINISH_NO_EARLIER_THAN", "FNET"} /\ constraint_date # None
       THEN LET finish_candidate == align_finish(constraint_date)
                s == Max2(start, subtract_work_duration(finish_candidate, spec.duration_days))
            IN [start |-> s, finish |-> add_work_duration(s, spec.duration_days)]
       ELSE [start |-> start, finish |-> finish]

\* A faulty variant of DependencyStart: an SS dependency leaves its lag out.
DependencyStart_no_start_lag(dependency, predecessor_task, start, duration_days) ==
    LET relation == RelationUpper(dependency)
    IN IF relation = "FS"
       THEN Max2(start, align_start(add_work_duration(
                predecessor_task.earliest_finish, dependency.lag_days)))
       ELSE IF relation = "SS"
       THEN Max2(start, align_start(add_work_duration(
                predecessor_task.earliest_start, 0)))
       ELSE IF relation = "FF"
       THEN align_start(subtract_work_duration(
                align_finish(add_work_duration(
                    predecessor_task.earliest_finish, dependency.lag_days)),
                duration_days))
       ELSE IF relation = "SF"
       THEN align_start(subtract_work_duration(
                align_finish(add_work_duration(
                    predecessor_task.earliest_start, dependency.lag_days)),
                duration_days))
       ELSE None

\* The start a dependency gives the task in _forward_pass (calculator.py
\* 315-342), from the start reached so far; None for an unsupported relation.
DependencyStart(dependency, predecessor_task, start, duration_days) ==
    LET relation == RelationUpper(dependency)
    IN IF relation = "FS"
       THEN Max2(start, align_start(add_work_duration(
                predecessor_task.earliest_finish, dependency.lag_days)))
       ELSE IF relation = "SS"
       THEN Max2(start, align_start(add_work_duration(
                predecessor_task.earliest_start, dependency.lag_days)))
       ELSE IF relation = "FF"
       THEN align_start(subtract_work_duration(
                align_finish(add_work_duration(
                    predecessor_task.earliest_finish, dependency.lag_days)),
                duration_days))
       ELSE IF relation = "SF"
       THEN align_start(subtract_work_duration(
                align_finish(add_work_duration(
                    predecessor_task.earliest_start, dependency.lag_days)),
                duration_days))
       ELSE None

\* The loop of _forward_pass over the dependencies of one task, from the k-th.
RECURSIVE ForwardDependencies(_, _, _, _)
ForwardDependencies(spec, k, start, scheduled) ==
    IF k > Len(spec.dependencies)
    THEN [raised |-> FALSE, start |-> start,
          finish |-> add_work_duration(start, spec.duration_days)]
    ELSE LET dependency == spec.dependencies[k]
         IN IF dependency.predecessor_uid \notin DOMAIN scheduled
            THEN [raised |-> TRUE, start |-> start, finish |-> start]
            ELSE LET s == DependencyStart(dependency,
                              scheduled[dependency.predecessor_uid], start,
                              spec.duration_days)
                 IN IF s = None
                    THEN [raised |-> TRUE, start |-> start, finish |-> start]
                    ELSE ForwardDependencies(spec, k + 1, s, scheduled)

ScheduledTask(spec, es, ef, ls, lf, float) ==
    [spec |-> spec, earliest_start |-> es, earliest_finish |-> ef,
     latest_start |-> ls, latest_finish |-> lf, total_float_hours |-> float]

Abs(x) == IF x < 0 THEN 0 - x ELSE x

\* models.py ScheduledTask.is_critical: abs(total_float_hours) < 1e-4, which
\* for a whole number of quarter hours is less than one of them
is_critical(task) == Abs(task.total_float_hours) < 1

\* The loop of _forward_pass over the order, from its i-th uid.
RECURSIVE ForwardFrom(_, _, _, _, _, _)
ForwardFrom(h, order, lookup, project_start, scheduled, i) ==
    IF i > Len(order) THEN [raised |-> FALSE, scheduled |-> scheduled]
    ELSE LET uid == order[i]
             spec == h[lookup[uid]]
             merged == ForwardDependencies(spec, 1, align_start(project_start), scheduled)
         IN IF merged.raised THEN [raised |-> TRUE, scheduled |-> scheduled]
            ELSE LET fixed == _apply_constraints(spec, merged.start, merged.finish)
                     task == ScheduledTask(lookup[uid], fixed.start, fixed.finish,
                                 fixed.start, fixed.finish, 0)
                 IN ForwardFrom(h, order, lookup, project_start,
                        [u \in (DOMAIN scheduled) \cup {uid} |->
                            IF u = uid THEN task ELSE scheduled[u]],
                        i + 1)

_forward_pass(h, order, lookup, project_start) ==
    ForwardFrom(h, order, lookup, project_start, <<>>, 1)

\* A faulty variant of CandidateFinish: an FS successor bounds the task by its
\* latest finish.
CandidateFinish_by_finish(dependency, successor_task, duration_days) ==
    LET relation == RelationUpper(dependency)
    IN align_finish(
           IF relation = "SS"
           THEN add_work_duration(
                    subtract_work_duration(successor_task.latest_start, dependency.lag_days),
                    duration_days)
           ELSE IF relation = "FF"
           THEN subtract_work_duration(successor_task.latest_finish, dependency.lag_days)
           ELSE IF relation = "SF"
           THEN add_work_duration(
                    subtract_work_duration(successor_task.latest_finish, dependency.lag_days),
                    duration_days)
           ELSE subtract_work_duration(successor_task.latest_finish, dependency.lag_days))

\* The finish a successor allows the task in _backward_pass (calculator.py
\* 370-398).
CandidateFinish(dependency, successor_task, duration_days) ==
    LET relation == RelationUpper(dependency)
    IN align_finish(
           IF relation = "SS"
           THEN add_work_duration(
                    subtract_work_duration(successor_task.latest_start, dependency.lag_days),
                    duration_days)
           ELSE IF relation = "FF"
           THEN subtract_work_duration(successor_task.latest_finish, dependency.lag_days)
           ELSE IF relation = "SF"
           THEN add_work_duration(
                    subtract_work_duration(successor_task.latest_finish, dependency.lag_days),
                    duration_days)
           ELSE subtract_work_duration(successor_task.latest_start, dependency.lag_days))

\* A faulty variant of BackwardTask: the float is measured from latest to earliest start.
BackwardTask_swapped_float(task, duration_days, successor_records, scheduled, project_finish) ==
    LET latest_finish_limit ==
            IF successor_records # <<>>
            THEN SetMin({CandidateFinish(successor_records[k].dependency,
                             scheduled[successor_records[k].uid], duration_days) :
                         k \in 1..Len(successor_records)})
            ELSE project_finish
        latest_start == align_start(subtract_work_duration(latest_finish_limit, duration_days))
        latest_finish == Min2(add_work_duration(latest_start, duration_days),
                              latest_finish_limit)
    IN ScheduledTask(task.spec, task.earliest_start, task.earliest_finish,
           latest_start, latest_finish,
           work_hours_between(latest_start, task.earliest_start))

\* The latest dates and the float _backward_pass gives one task.
BackwardTask(task, duration_days, successor_records, scheduled, project_finish) ==
    LET latest_finish_limit ==
            IF successor_records # <<>>
            THEN SetMin({CandidateFinish(successor_records[k].dependency,
                             scheduled[successor_records[k].uid], duration_days) :
                         k \in 1..Len(successor_records)})
            ELSE project_finish
        latest_start == align_start(subtract_work_duration(latest_finish_limit, duration_days))
        latest_finish == Min2(add_work_duration(latest_start, duration_days),
                              latest_finish_limit)
    IN ScheduledTask(task.spec, task.earliest_start, task.earliest_finish,
           latest_start, latest_finish,
           work_hours_between(task.earliest_start, latest_start))

\* The loop of _backward_pass over reversed(order), from the i-th uid down.
RECURSIVE BackwardFrom(_, _, _, _, _, _)
BackwardFrom(h, order, successors, project_finish, scheduled, i) ==
    IF i < 1 THEN scheduled
    ELSE LET uid == order[i]
             task == BackwardTask(scheduled[uid], h[scheduled[uid].spec].duration_days,
                         successors[uid], scheduled, project_finish)
         IN BackwardFrom(h, order, successors, project_finish,
                [scheduled EXCEPT ![uid] = task], i - 1)

_backward_pass(h, order, scheduled, successors) ==
    BackwardFrom(h, order, successors,
        SetMax({scheduled[u].earliest_finish : u \in DOMAIN scheduled}),
        scheduled, Len(order))

(***************************************************************************)
(* models.py: ScheduleResult.to_rows and to_csv.  A string the code formats *)
(* is the sequence of its characters.                                      *)
(***************************************************************************)
Digit(d) == <<"0", "1", "2", "3", "4", "5", "6", "7", "8", "9">>[d + 1]

\* str(n) of a natural number
RECURSIVE str(_)
str(n) == IF n < 10 THEN <<Digit(n)>> ELSE str(n \div 10) \o <<Digit(n % 10)>>

TwoDigits(n) == <<Digit(n \div 10), Digit(n % 10)>>

\* datetime.isoformat(): date, "T", HH:MM:SS (the date is written as the
\* number of its day)
isoformat(moment) ==
    str(DateOf(moment)) \o <<"T">> \o TwoDigits(TimeOf(moment) \div 4) \o <<":">>
    \o TwoDigits((TimeOf(moment) % 4) * 15) \o <<":", "0", "0">>

\* f"{num / den:.3f}" of a quotient that is not negative
Fixed3(num, den) ==
    LET thousandths == (2 * 1000 * num + den) \div (2 * den)
    IN str(thousandths \div 1000) \o <<".">>
       \o <<Digit((thousandths \div 100) % 10), Digit((thousandths \div 10) % 10),
            Digit(thousandths % 10)>>

fieldnames ==
    <<"uid", "name", "earliest_start", "earliest_finish", "latest_start",
      "latest_finish", "total_float_hours", "is_critical", "duration_days",
      "is_milestone", "constraint_type", "constraint_date">>

\* A faulty variant of to_rows: the rows are those of the tasks by ascending uid.
to_rows_by_uid(h, res) ==
    LET byUid == [u \in {h[res.tasks[k].spec].uid : k \in 1..Len(res.tasks)} |->
                     CHOOSE k \in 1..Len(res.tasks) : h[res.tasks[k].spec].uid = u]
        RECURSIVE Sorted(_)
        Sorted(S) == IF S = {} THEN <<>>
                     ELSE LET u == CHOOSE x \in S : \A y \in S : x <= y
                          IN <<u>> \o Sorted(S \ {u})
        uids == Sorted(DOMAIN byUid)
    IN [i \in 1..Len(uids) |->
          LET task == res.tasks[byUid[uids[i]]]
              spec == h[task.spec]
          IN [uid |-> str(spec.uid),
              name |-> spec.name,
              earliest_start |-> isoformat(task.earliest_start),
              earliest_finish |-> isoformat(task.earliest_finish),
              latest_start |-> isoformat(task.latest_start),
              latest_finish |-> isoformat(task.latest_finish),
              total_float_hours |-> Fixed3(task.total_float_hours, 4),
              is_critical |-> IF is_critical(task) THEN "yes" ELSE "no",
              duration_days |-> Fixed3(spec.duration_days, hours_per_day),
              is_milestone |-> IF spec.is_milestone THEN "yes" ELSE "no",
              constraint_type |-> spec.constraint_type,
              constraint_date |-> IF spec.constraint_date # None
                                  THEN isoformat(spec.constraint_date) ELSE ""]]

to_rows(h, res) ==
    [k \in 1..Len(res.tasks) |->
        LET task == res.tasks[k]
            spec == h[task.spec]
        IN [uid |-> str(spec.uid),
            name |-> spec.name,
            earliest_start |-> isoformat(task.earliest_start),
            earliest_finish |-> isoformat(task.earliest_finish),
            latest_start |-> isoformat(task.latest_start),
            latest_finish |-> isoformat(task.latest_finish),
            total_float_hours |-> Fixed3(task.total_float_hours, 4),
            is_critical |-> IF is_critical(task) THEN "yes" ELSE "no",
            duration_days |-> Fixed3(spec.duration_days, hours_per_day),
            is_milestone |-> IF spec.is_milestone THEN "yes" ELSE "no",
            constraint_type |-> spec.constraint_type,
            constraint_date |-> IF spec.constraint_date # None
                                THEN isoformat(spec.constraint_date) ELSE ""]]

\* to_csv: the header and the rows written to the destination, the files
\* after the call and the path returned
to_csv(fs, h, res, destination) ==
    [files |-> fs \cup {destination},
     written |-> [path |-> destination, header |-> fieldnames, rows |-> to_rows(h, res)],
     path |-> destination]

\* The while True loop of _resolve_cycles, run to its end
RECURSIVE ResolveLoop(_, _, _)
ResolveLoop(h, ts, resolutions) ==
    LET step == ResolveIteration(h, ts, resolutions)
    IN IF step.again THEN ResolveLoop(step.heap, ts, step.resolutions)
       ELSE [heap |-> h, resolutions |-> resolutions]

\* calculate_schedule (calculator.py 423-428) on the list of TaskSpec specs,
\* up to its topological order
OrderOfCall(specs) ==
    LET cloned == _clone_tasks(specs, [i \in 1..Len(specs) |-> i])
        made == _ensure_task_lookup(cloned.heap, cloned.tasks)
    IN IF made.raised THEN [raised |-> TRUE, order |-> <<>>]
       ELSE LET pruned == _remove_missing_dependencies(cloned.heap, cloned.tasks,
                              made.lookup)
                resolved == ResolveLoop(pruned.heap, cloned.tasks, <<>>)
            IN _topological_order(resolved.heap, cloned.tasks)

(***************************************************************************)
(* calculate_schedule, one action per statement of its body                *)
(***************************************************************************)
VARIABLES
    heap,               \* object id -> TaskSpec
    task_specs,         \* the caller's list (object ids)
    project_start_arg,  \* the caller's project_start, None when not given
    files,              \* the files of the working directory
    pc,                 \* the statement calculate_schedule is at
    tasks,              \* the list calculate_schedule works on (object ids)
    lookup,             \* uid -> object id
    dependency_issues,
    cycle_resolutions,
    cycle_csv_path,
    successors,
    order,
    project_start,
    scheduled,          \* uid -> ScheduledTask
    result,             \* the ScheduleResult returned
    export,             \* what to_rows and to_csv of the result gave
    calendar_call,      \* the WorkCalendar calls made on their own
    scheduler           \* the run of the hour-based scheduler (cps_scheduler.py)

vars == <<heap, task_specs, project_start_arg, files, pc, tasks, lookup,
          dependency_issues, cycle_resolutions, cycle_csv_path, successors,
          order, project_start, scheduled, result, export, calendar_call,
          scheduler>>

inputs == <<task_specs, project_start_arg>>

\* The Monday the examples start on
BaseDay == 4 * 7

\* datetime.now() when the caller gives no project_start and no task has a date
NowSet == {At(BaseDay + 1, 9, 30), At(BaseDay + 5, 10, 0)}

\* Nothing exported yet, no calendar call made
NoExport == [rows |-> <<>>, destination |-> "", written |-> <<>>, returned |-> ""]

NoCalendarCall == [moment |-> None, hours |-> None, added |-> None,
                   measured |-> None, restored |-> None, aligned |-> None]

NoScheduler == [at |-> "idle"]

\* The state at the call of calculate_schedule(specs, start)
AtCall(specs, start) ==
    /\ heap = specs
    /\ task_specs = [i \in 1..Len(specs) |-> i]
    /\ project_start_arg = start
    /\ files = {}
    /\ pc = "clone"
    /\ tasks = <<>>
    /\ lookup = <<>>
    /\ dependency_issues = <<>>
    /\ cycle_resolutions = <<>>
    /\ cycle_csv_path = ""
    /\ successors = <<>>
    /\ order = <<>>
    /\ project_start = None
    /\ scheduled = <<>>
    /\ result = <<>>
    /\ export = NoExport
    /\ calendar_call = NoCalendarCall
    /\ scheduler = NoScheduler

\* tasks = _clone_tasks(list(task_specs))
CloneTasks ==
    /\ pc = "clone"
    /\ LET cloned == _clone_tasks(heap, task_specs)
       IN /\ heap' = cloned.heap
          /\ tasks' = cloned.tasks
    /\ pc' = "lookup"
    /\ UNCHANGED <<inputs, export, calendar_call, scheduler, files, lookup, dependency_issues, cycle_resolutions,
                   cycle_csv_path, successors, order, project_start, scheduled, result>>

\* lookup = _ensure_task_lookup(tasks)
EnsureTaskLookup ==
    /\ pc = "lookup"
    /\ LET made == _ensure_task_lookup(heap, tasks)
       IN /\ lookup' = made.lookup
          /\ pc' = IF made.raised THEN "raised" ELSE "prune"
    /\ UNCHANGED <<heap, inputs, export, calendar_call, scheduler, files, tasks, dependency_issues, cycle_resolutions,
                   cycle_csv_path, successors, order, project_start, scheduled, result>>

\* dependency_issues = _remove_missing_dependencies(tasks, lookup)
RemoveMissingDependencies ==
    /\ pc = "prune"
    /\ LET pruned == _remove_missing_dependencies(heap, tasks, lookup)
       IN /\ heap' = pruned.heap
          /\ dependency_issues' = pruned.issues
    /\ pc' = "resolve"
    /\ UNCHANGED <<inputs, export, calendar_call, scheduler, files, tasks, lookup, cycle_resolutions,
                   cycle_csv_path, successors, order, project_start, scheduled, result>>

\* _resolve_cycles: an iteration of its loop that removes a dependency
ResolveCyclesIteration ==
    /\ pc = "resolve"
    /\ LET step == ResolveIteration(heap, tasks, cycle_resolutions)
       IN /\ step.again
          /\ heap' = step.heap
          /\ cycle_resolutions' = step.resolutions
    /\ UNCHANGED <<inputs, export, calendar_call, scheduler, files, pc, tasks, lookup, dependency_issues,
                   cycle_csv_path, successors, order, project_start, scheduled, result>>

\* _resolve_cycles: the iteration that leaves the loop, and the return
\* (calculator.py 234-237)
ResolveCyclesReturn ==
    /\ pc = "resolve"
    /\ ~ResolveIteration(heap, tasks, cycle_resolutions).again
    /\ IF cycle_resolutions # <<>>
       THEN LET written == _write_cycle_adjusted_tasks(files)
            IN /\ files' = written.files
               /\ cycle_csv_path' = written.path
       ELSE UNCHANGED <<files, cycle_csv_path>>
    /\ pc' = "order"
    /\ UNCHANGED <<heap, inputs, export, calendar_call, scheduler, tasks, lookup, dependency_issues, cycle_resolutions,
                   successors, order, project_start, scheduled, result>>

\* successors = _build_successors(tasks); order = _topological_order(tasks)
TopologicalOrder ==
    /\ pc = "order"
    /\ successors' = _build_successors(heap, tasks)
    /\ LET sorted == _topological_order(heap, tasks)
       IN /\ order' = sorted.order
          /\ pc' = IF sorted.raised THEN "raised" ELSE "start"
    /\ UNCHANGED <<heap, inputs, export, calendar_call, scheduler, files, tasks, lookup, dependency_issues,
                   cycle_resolutions, cycle_csv_path, project_start, scheduled, result>>

\* calculator.py 431-433
ProjectStart ==
    /\ pc = "start"
    /\ \E now \in NowSet :
         LET inferred == _infer_project_start(heap, tasks)
         IN project_start' = align_start(
                IF project_start_arg # None THEN project_start_arg
                ELSE IF inferred # None THEN inferred
                ELSE now)
    /\ pc' = "forward"
    /\ UNCHANGED <<heap, inputs, export, calendar_call, scheduler, files, tasks, lookup, dependency_issues,
                   cycle_resolutions, cycle_csv_path, successors, order, scheduled, result>>

\* scheduled = _forward_pass(order, lookup, calendar, project_start)
ForwardPass ==
    /\ pc = "forward"
    /\ LET passed == _forward_pass(heap, order, lookup, project_start)
       IN /\ scheduled' = passed.scheduled
          /\ pc' = IF passed.raised THEN "raised" ELSE "backward"
    /\ UNCHANGED <<heap, inputs, export, calendar_call, scheduler, files, tasks, lookup, dependency_issues,
                   cycle_resolutions, cycle_csv_path, successors, order,
                   project_start, result>>

\* _backward_pass(order, scheduled, successors, calendar)
BackwardPass ==
    /\ pc = "backward"
    /\ scheduled' = _backward_pass(heap, order, scheduled, successors)
    /\ pc' = "assemble"
    /\ UNCHANGED <<heap, inputs, export, calendar_call, scheduler, files, tasks, lookup, dependency_issues,
                   cycle_resolutions, cycle_csv_path, successors, order,
                   project_start, result>>

\* calculator.py 436-445
Return ==
    /\ pc = "assemble"
    /\ result' = [project_start |-> project_start,
                  project_finish |-> SetMax({scheduled[u].latest_finish : u \in DOMAIN scheduled}),
                  tasks |-> [k \in 1..Len(order) |-> scheduled[order[k]]],
                  cycle_resolutions |-> cycle_resolutions,
                  cycle_adjusted_csv |-> cycle_csv_path,
                  dependency_issues |-> dependency_issues]
    /\ pc' = "returned"
    /\ UNCHANGED <<heap, inputs, export, calendar_call, scheduler, files, tasks, lookup, dependency_issues,
                   cycle_resolutions, cycle_csv_path, successors, order,
                   project_start, scheduled>>

\* The destinations the result is exported to
Destinations == {"schedule.csv", "reports/schedule.csv"}

\* rows = result.to_rows()
ToRows ==
    /\ pc = "returned"
    /\ export' = [export EXCEPT !.rows = to_rows(heap, result)]
    /\ pc' = "rows"
    /\ UNCHANGED <<heap, inputs, calendar_call, scheduler, files, tasks, lookup, dependency_issues,
                   cycle_resolutions, cycle_csv_path, successors, order,
                   project_start, scheduled, result>>

\* written_path = result.to_csv(destination)
ToCsv ==
    /\ pc = "returned"
    /\ \E destination \in Destinations :
         LET out == to_csv(files, heap, result, destination)
         IN /\ files' = out.files
            /\ export' = [export EXCEPT !.destination = destination,
                                        !.written = out.written,
                                        !.returned = out.path]
    /\ pc' = "csv"
    /\ UNCHANGED <<heap, inputs, calendar_call, scheduler, tasks, lookup, dependency_issues,
                   cycle_resolutions, cycle_csv_path, successors, order,
                   project_start, scheduled, result>>

Next ==
    \/ CloneTasks
    \/ EnsureTaskLookup
    \/ RemoveMissingDependencies
    \/ ResolveCyclesIteration
    \/ ResolveCyclesReturn
    \/ TopologicalOrder
    \/ ProjectStart
    \/ ForwardPass
    \/ BackwardPass
    \/ Return
    \/ ToRows
    \/ ToCsv

(***************************************************************************)
(* Spec: the task lists of at most MaxTasks tasks with at most MaxDeps     *)
(* dependencies in all (on any task of the list, on itself or on a uid    *)
(* that is not in the list), each task of one day, from a Monday at 08:00. *)
(***************************************************************************)
OneDay == hours_per_day

\* The uid lists: 1..n in ascending and in descending order, and two lists
\* with a repeated uid
UidLists ==
    UNION {{[i \in 1..n |-> i], [i \in 1..n |-> n + 1 - i]} : n \in 0..MaxTasks}

DuplicateUidLists == {<<1, 1>>, <<2, 1, 2>>}

\* <<position of the owning task, predecessor_uid>>: a task of the list, or
\* the uid n + 1, which is not in the list
GraphEdges(n) == (1..n) \X (1..(n + 1))

\* The dependencies of the i-th task: FS with no lag, but for the first edge
\* of the list when `unsupported` (it is then a dependency of the first task),
\* whose relation is "XX", a relation string outside FS, SS, FF, SF.
DependenciesOf(edges, unsupported, i) ==
    MapIndex(SelectSeq([k \in 1..Len(edges) |-> <<edges[k][1], edges[k][2], k>>],
                 LAMBDA e : e[1] = i),
        LAMBDA e : DependencySpec(e[2],
                       IF unsupported /\ e[3] = 1 THEN "XX" ELSE "FS", 0))

InitGraph ==
    \E uids \in UidLists \cup DuplicateUidLists :
      \E k \in 0..MaxDeps :
        \E edges \in [1..k -> GraphEdges(Len(uids))] :
          \E unsupported \in BOOLEAN :
            /\ uids \in DuplicateUidLists => k = 0
            /\ unsupported => (k > 0 /\ edges[1][1] = 1)
            /\ AtCall([i \in 1..Len(uids) |->
                         TaskSpec(uids[i], OneDay,
                             DependenciesOf(edges, unsupported, i), "", None, None)],
                      At(BaseDay, 8, 0))

Init == InitGraph

Spec == Init /\ [][Next]_vars

(***************************************************************************)
(* SpecSched: two tasks, the second depending on the first by one or two   *)
(* dependencies of any relation and lag, with durations from none to two   *)
(* days and at most one date constraint; and the three-task cycle.         *)
(***************************************************************************)
Durations == {0, hours_per_day \div 2, hours_per_day, 2 * hours_per_day}

Lags == {0 - hours_per_day, 0, hours_per_day \div 4}

Relations == {"FS", "SS", "FF", "SF"}

\* before the workday, at its end, on a Saturday
ConstraintDates == {At(BaseDay, 7, 0), At(BaseDay + 2, 17, 0), At(BaseDay + 5, 10, 0)}

Constraints ==
    ({"MSO", "SNET", "MFO", "FNET"} \X ConstraintDates) \cup {<<"ASAP", At(BaseDay, 7, 0)>>}

SchedDependencies == {DependencySpec(1, r, l) : r \in Relations, l \in Lags}

\* no constraint: the second task carries up to two dependencies, the first
\* may depend on the second (a cycle)
InitDependencies ==
    \E d1, d2 \in Durations :
      \E back \in {<<>>, <<DependencySpec(2, "FS", 0)>>} :
        \E deps \in {<<>>} \cup {<<a>> : a \in SchedDependencies}
                    \cup {<<a, b>> : a, b \in SchedDependencies} :
          \E start \in {At(BaseDay, 8, 0), At(BaseDay + 4, 8, 0)} :
            AtCall(<<TaskSpec(1, d1, back, "", None, None),
                     TaskSpec(2, d2, deps, "", None, None)>>, start)

\* one task carries a constraint: the second task depends on the first by at
\* most one dependency
InitConstraints ==
    \E d1, d2 \in Durations :
      \E deps \in {<<>>} \cup {<<a>> : a \in SchedDependencies} :
        \E c \in Constraints :
          \E on \in {1, 2} :
            \E start \in {At(BaseDay, 8, 0), None} :
              AtCall(<<TaskSpec(1, d1, <<>>, IF on = 1 THEN c[1] ELSE "",
                           IF on = 1 THEN c[2] ELSE None, None),
                       TaskSpec(2, d2, deps, IF on = 2 THEN c[1] ELSE "",
                           IF on = 2 THEN c[2] ELSE None, None)>>, start)

\* no project_start and no constraint date: the original starts, or now
InitUndated ==
    \E d1 \in Durations :
      \E os \in {None, At(BaseDay + 1, 6, 0)} :
        AtCall(<<TaskSpec(1, d1, <<>>, "", None, os)>>, None)

\* scenario 6 of the spec: three tasks of any duration, T2 after T1, T3 after
\* T2 and T1 after T3
InitCycle ==
    \E d1, d2, d3 \in Durations :
      AtCall(<<TaskSpec(1, d1, <<DependencySpec(3, "FS", 0)>>, "", None, None),
               TaskSpec(2, d2, <<DependencySpec(1, "FS", 0)>>, "", None, None),
               TaskSpec(3, d3, <<DependencySpec(2, "FS", 0)>>, "", None, None)>>,
             At(BaseDay, 8, 0))

InitSched == InitDependencies \/ InitConstraints \/ InitUndated \/ InitCycle

SpecSched == InitSched /\ [][Next]_vars

(***************************************************************************)
(* SpecCalendar: the WorkCalendar called on its own, from every instant of *)
(* a week taken at ten times of the day, with up to MaxWeeks weeks of      *)
(* working time.                                                           *)
(***************************************************************************)
MaxWeeks == 3

Moments ==
    {At(BaseDay + d, hh, mm) : d \in 0..6, hh \in {7, 8, 12, 16, 17}, mm \in {0, 45}}

WorkHours == 0..(MaxWeeks * 5 * hours_per_day + hours_per_day \div 4)

\* The calculator when no schedule is being calculated
IdleCalculator ==
    /\ heap = <<>>
    /\ task_specs = <<>>
    /\ project_start_arg = None
    /\ files = {}
    /\ tasks = <<>>
    /\ lookup = <<>>
    /\ dependency_issues = <<>>
    /\ cycle_resolutions = <<>>
    /\ cycle_csv_path = ""
    /\ successors = <<>>
    /\ order = <<>>
    /\ project_start = None
    /\ scheduled = <<>>
    /\ result = <<>>
    /\ export = NoExport

\* The state when only WorkCalendar calls are made
NoSchedule ==
    /\ IdleCalculator
    /\ pc = "calendar"
    /\ scheduler = NoScheduler

schedule_vars ==
    <<heap, task_specs, project_start_arg, files, pc, tasks, lookup,
      dependency_issues, cycle_resolutions, cycle_csv_path, successors, order,
      project_start, scheduled, result, export, scheduler>>

InitCalendar ==
    /\ NoSchedule
    /\ \E t \in Moments : \E h \in WorkHours :
         calendar_call = [NoCalendarCall EXCEPT !.moment = t, !.hours = h]

\* added = calendar.add_work_hours(moment, hours)
AddWorkHours ==
    /\ pc = "calendar"
    /\ calendar_call.added = None
    /\ calendar_call.aligned = None
    /\ calendar_call' = [calendar_call EXCEPT
                            !.added = add_work_hours(calendar_call.moment,
                                          calendar_call.hours)]
    /\ UNCHANGED schedule_vars

\* measured = calendar.work_hours_between(moment, added)
WorkHoursBetween ==
    /\ pc = "calendar"
    /\ calendar_call.added # None
    /\ calendar_call.measured = None
    /\ calendar_call' = [calendar_call EXCEPT
                            !.measured = work_hours_between(calendar_call.moment,
                                             calendar_call.added)]
    /\ UNCHANGED schedule_vars

\* restored = calendar.subtract_work_hours(added, hours)
SubtractWorkHours ==
    /\ pc = "calendar"
    /\ calendar_call.added # None
    /\ calendar_call.restored = None
    /\ calendar_call' = [calendar_call EXCEPT
                            !.restored = subtract_work_hours(calendar_call.added,
                                             calendar_call.hours)]
    /\ UNCHANGED schedule_vars

\* aligned = calendar.align_finish(moment)
AlignFinish ==
    /\ pc = "calendar"
    /\ calendar_call.added = None
    /\ calendar_call.aligned = None
    /\ calendar_call' = [calendar_call EXCEPT
                            !.aligned = align_finish(calendar_call.moment)]
    /\ UNCHANGED schedule_vars

NextCalendar ==
    \/ AddWorkHours
    \/ WorkHoursBetween
    \/ SubtractWorkHours
    \/ AlignFinish

SpecCalendar == InitCalendar /\ [][NextCalendar]_vars

(***************************************************************************)
(* add_work_hours, statement by statement, on calendars of any weekend     *)
(***************************************************************************)
\* The weekend_days tuples tried: __post_init__ (calendar.py 18-24) checks
\* workday_end against workday_start and accepts every one of them.
WeekendChoices == {{5, 6}, {6}, {0, 1, 2, 3, 4, 5}, 0..6}

AddHours == {1, hours_per_day \div 2, hours_per_day, 2 * hours_per_day + 1}

\* The last date the date type holds (date.max): adding a day to it raises
\* OverflowError.
date_max == BaseDay + 7 * (MaxWeeks + 2)

\* The frame of calendar.add_work_hours(start, hours), hours > 0, on
\* WorkCalendar(weekend_days = weekend), before its first statement.
AddCall(weekend, start, hours) ==
    [weekend_days |-> weekend, start |-> start, hours |-> hours,
     at |-> "align_start", current |-> None, remaining |-> hours,
     next_day |-> None, returned |-> None]

InitAddWorkHours ==
    /\ NoSchedule
    /\ \E weekend \in WeekendChoices : \E t \in Moments : \E h \in AddHours :
         calendar_call = AddCall(weekend, t, h)

\* current = self.align_start(start); remaining = hours
AlignStartStep ==
    /\ pc = "calendar"
    /\ calendar_call.at = "align_start"
    /\ LET moment == calendar_call.start
       IN calendar_call' =
            IF Weekday(DateOf(moment)) \in calendar_call.weekend_days
            THEN [calendar_call EXCEPT !.next_day = DateOf(moment),
                                       !.at = "_next_workday_start"]
            ELSE IF TimeOf(moment) >= workday_end
            THEN [calendar_call EXCEPT !.next_day = DateOf(moment) + 1,
                                       !.at = "_next_workday_start"]
            ELSE IF TimeOf(moment) < workday_start
            THEN [calendar_call EXCEPT
                     !.current = Combine(DateOf(moment), workday_start),
                     !.at = "while"]
            ELSE [calendar_call EXCEPT !.current = moment, !.at = "while"]
    /\ UNCHANGED schedule_vars

\* One test of the while loop of _next_workday_start, with its body or the
\* return that follows it.
NextWorkdayStartStep ==
    /\ pc = "calendar"
    /\ calendar_call.at = "_next_workday_start"
    /\ calendar_call' =
         IF Weekday(calendar_call.next_day) \in calendar_call.weekend_days
         THEN IF calendar_call.next_day + 1 > date_max
              THEN [calendar_call EXCEPT !.at = "OverflowError"]
              ELSE [calendar_call EXCEPT !.next_day = calendar_call.next_day + 1]
         ELSE [calendar_call EXCEPT
                  !.current = Combine(calendar_call.next_day, workday_start),
                  !.at = "while"]
    /\ UNCHANGED schedule_vars

\* One test of the while loop of add_work_hours, with its body up to the
\* call of _next_workday_start.
WhileStep ==
    /\ pc = "calendar"
    /\ calendar_call.at = "while"
    /\ LET current == calendar_call.current
           remaining == calendar_call.remaining
           available == Combine(DateOf(current), workday_end) - current
       IN calendar_call' =
            IF remaining <= 0
            THEN [calendar_call EXCEPT !.returned = current, !.at = "returned"]
            ELSE IF remaining <= available
            THEN [calendar_call EXCEPT !.returned = current + remaining,
                                       !.at = "returned"]
            ELSE IF DateOf(current) + 1 > date_max
            THEN [calendar_call EXCEPT !.at = "OverflowError"]
            ELSE [calendar_call EXCEPT !.remaining = remaining - available,
                                       !.next_day = DateOf(current) + 1,
                                       !.at = "_next_workday_start"]
    /\ UNCHANGED schedule_vars

NextAddWorkHours ==
    \/ AlignStartStep
    \/ NextWorkdayStartStep
    \/ WhileStep

SpecAddWorkHours == InitAddWorkHours /\ [][NextAddWorkHours]_vars

(***************************************************************************)
(* cps_scheduler.py: the hour-based scheduler                              *)
(*                                                                         *)
(* A string is the sequence of its characters.  A number of hours is an    *)
(* integer number of hundredths of an hour, which holds exactly every      *)
(* magnitude of at most two decimals.                                      *)
(***************************************************************************)
WORK_HOURS_PER_DAY == 8
WORK_DAYS_PER_WEEK == 5
WORK_DAYS_PER_MONTH == 20

HoursScale == 100

calculator_vars ==
    <<heap, task_specs, project_start_arg, files, pc, tasks, lookup,
      dependency_issues, cycle_resolutions, cycle_csv_path, successors, order,
      project_start, scheduled, result, export, calendar_call>>

DigitChars == {"0", "1", "2", "3", "4", "5", "6", "7", "8", "9"}

Whitespace == {" ", "\t"}

UpperLetters ==
    <<"A", "B", "C", "D", "E", "F", "G", "H", "I", "J", "K", "L", "M",
      "N", "O", "P", "Q", "R", "S", "T", "U", "V", "W", "X", "Y", "Z">>

LowerLetters ==
    <<"a", "b", "c", "d", "e", "f", "g", "h", "i", "j", "k", "l", "m",
      "n", "o", "p", "q", "r", "s", "t", "u", "v", "w", "x", "y", "z">>

\* text.lower()
lower(text) ==
    [i \in 1..Len(text) |->
        IF \E k \in 1..Len(UpperLetters) : UpperLetters[k] = text[i]
        THEN LowerLetters[CHOOSE k \in 1..Len(UpperLetters) : UpperLetters[k] = text[i]]
        ELSE text[i]]

RECURSIVE lstrip(_)
lstrip(text) ==
    IF text # <<>> /\ text[1] \in Whitespace THEN lstrip(Tail(text)) ELSE text

RECURSIVE rstrip(_)
rstrip(text) ==
    IF text # <<>> /\ text[Len(text)] \in Whitespace
    THEN rstrip(SubSeq(text, 1, Len(text) - 1))
    ELSE text

\* text.strip()
strip(text) == rstrip(lstrip(text))

\* The length of the longest prefix of text made of characters of chars
RECURSIVE PrefixLength(_, _)
PrefixLength(text, chars) ==
    IF text # <<>> /\ text[1] \in chars
    THEN 1 + PrefixLength(Tail(text), chars)
    ELSE 0

\* int(digits), 0 for no digit
RECURSIVE IntegerOf(_)
IntegerOf(digits) ==
    IF digits = <<>> THEN 0
    ELSE 10 * IntegerOf(SubSeq(digits, 1, Len(digits) - 1))
         + (CHOOSE d \in 0..9 : Digit(d) = digits[Len(digits)])

RECURSIVE PowerOfTen(_)
PowerOfTen(n) == IF n = 0 THEN 1 ELSE 10 * PowerOfTen(n - 1)

\* float(text) for a text that group 1 of the pattern matched
float(text) ==
    LET whole == PrefixLength(text, DigitChars)
        decimals == IF whole = Len(text) THEN <<>>
                    ELSE SubSeq(text, whole + 2, Len(text))
    IN IntegerOf(SubSeq(text, 1, whole)) * HoursScale
       + (IntegerOf(decimals) * HoursScale) \div PowerOfTen(Len(decimals))

\* re.fullmatch(r"([0-9]*\.?[0-9]+)\s*(e?)(d|w|mo|h)", text): group 1 is the
\* longest prefix of digits and points, since nothing after it can match one.
DurationMatch(text) ==
    LET n == PrefixLength(text, DigitChars \cup {"."})
        magnitude == SubSeq(text, 1, n)
        points == Cardinality({i \in 1..n : magnitude[i] = "."})
        after == SubSeq(text, n + 1, Len(text))
        spaces == PrefixLength(after, Whitespace)
        tail == SubSeq(after, spaces + 1, Len(after))
        unit == IF tail # <<>> /\ tail[1] = "e" THEN Tail(tail) ELSE tail
    IN IF /\ n >= 1
          /\ magnitude[n] \in DigitChars
          /\ points <= 1
          /\ unit \in {<<"d">>, <<"w">>, <<"m", "o">>, <<"h">>}
       THEN [matched |-> TRUE, magnitude |-> magnitude, unit |-> unit]
       ELSE [matched |-> FALSE, magnitude |-> <<>>, unit |-> <<>>]

\* A faulty variant of UnitHours: a week of seven days.
UnitHours_calendar_week(magnitude, unit) ==
    IF unit = <<"h">> THEN magnitude
    ELSE IF unit = <<"d">> THEN magnitude * WORK_HOURS_PER_DAY
    ELSE IF unit = <<"w">> THEN magnitude * 7 * WORK_HOURS_PER_DAY
    ELSE magnitude * WORK_DAYS_PER_MONTH * WORK_HOURS_PER_DAY

\* The conversion of parse_duration (cps_scheduler.py 259-266)
UnitHours(magnitude, unit) ==
    IF unit = <<"h">> THEN magnitude
    ELSE IF unit = <<"d">> THEN magnitude * WORK_HOURS_PER_DAY
    ELSE IF unit = <<"w">> THEN magnitude * WORK_DAYS_PER_WEEK * WORK_HOURS_PER_DAY
    ELSE magnitude * WORK_DAYS_PER_MONTH * WORK_HOURS_PER_DAY

parse_duration(value) ==
    LET stripped == strip(value)
        text == IF stripped # <<>> /\ stripped[Len(stripped)] = "?"
                THEN SubSeq(stripped, 1, Len(stripped) - 1)
                ELSE stripped
        match == DurationMatch(lower(text))
    IN IF stripped = <<>> THEN [error |-> "ValueError", hours |-> None]
       ELSE IF ~match.matched THEN [error |-> "ValueError", hours |-> None]
       ELSE [error |-> "", hours |-> UnitHours(float(match.magnitude), match.unit)]

\* The duration strings tried: a magnitude, then maybe a blank, an "e", a
\* unit and question marks, between blanks or not.
Magnitudes ==
    {<<"5">>, <<"1", "2">>, <<"1", ".", "5">>, <<"0", ".", "2", "5">>,
     <<".", "5">>, <<"5", ".">>}

UnitTexts ==
    {<<>>, <<"h">>, <<"d">>, <<"w">>, <<"m", "o">>, <<"H">>, <<"D">>, <<"W">>,
     <<"M", "O">>, <<"M", "o">>, <<"m">>, <<"y">>}

Blanks == {<<>>, <<" ">>}

DurationTexts ==
    {lead \o magnitude \o gap \o estimated \o unit \o marks \o trail :
        lead \in Blanks, magnitude \in Magnitudes, gap \in Blanks,
        estimated \in {<<>>, <<"e">>, <<"E">>}, unit \in UnitTexts,
        marks \in {<<>>, <<"?">>, <<"?", "?">>}, trail \in Blanks}

InitParseDuration ==
    /\ IdleCalculator
    /\ pc = "scheduler"
    /\ calendar_call = NoCalendarCall
    /\ \E value \in DurationTexts :
         scheduler = [at |-> "parse_duration", value |-> value, hours |-> None]

\* hours = parse_duration(value)
ParseDuration ==
    /\ scheduler.at = "parse_duration"
    /\ LET parsed == parse_duration(scheduler.value)
       IN scheduler' = [scheduler EXCEPT
                           !.at = IF parsed.error # "" THEN parsed.error ELSE "returned",
                           !.hours = parsed.hours]
    /\ UNCHANGED calculator_vars

NextParseDuration == ParseDuration

SpecParseDuration == InitParseDuration /\ [][NextParseDuration]_vars

\* Dependency and Task (cps_scheduler.py 21-49); a task is named by its id.
Dependency(pred_id, dep_type, lag_hours) ==
    [pred_id |-> pred_id, dep_type |-> dep_type, lag_hours |-> lag_hours]

Task(task_id, level, base_duration_hours, predecessors) ==
    [task_id |-> task_id, level |-> level,
     base_duration_hours |-> base_duration_hours, predecessors |-> predecessors,
     effective_duration_hours |-> 0, es |-> 0, ef |-> 0, ls |-> 0, lf |-> 0,
     total_slack |-> 0, free_slack |-> 0]

\* A dict of tasks is the sequence of its values in insertion order.
\* tasks[task_id]: the position of task_id in it, 0 when it is not a key.
TaskIndex(dict, task_id) ==
    IF \E i \in 1..Len(dict) : dict[i].task_id = task_id
    THEN CHOOSE i \in 1..Len(dict) : dict[i].task_id = task_id
    ELSE 0

\* sum(tasks[pred_id].effective_duration_hours for pred_id in ids)
RECURSIVE SumEffective(_, _)
SumEffective(dict, ids) ==
    IF ids = {} THEN 0
    ELSE LET pred_id == CHOOSE x \in ids : TRUE
         IN dict[TaskIndex(dict, pred_id)].effective_duration_hours
            + SumEffective(dict, ids \ {pred_id})

\* The for loop of compute_effective_durations from the i-th task on.
RECURSIVE EffectiveLoop(_, _, _)
EffectiveLoop(dict, targeted, i) ==
    IF i > Len(dict) THEN dict
    ELSE LET task == dict[i]
             base == task.base_duration_hours
             unique_preds == {task.predecessors[k].pred_id :
                                 k \in 1..Len(task.predecessors)}
             sum_pred == SumEffective(dict,
                             {pred_id \in unique_preds : TaskIndex(dict, pred_id) # 0})
             effective == IF lower(task.level) \in targeted
                          THEN Max2(base, sum_pred)
                          ELSE base
         IN EffectiveLoop([dict EXCEPT ![i].effective_duration_hours = effective],
                targeted, i + 1)

compute_effective_durations(dict, targeted_levels) ==
    EffectiveLoop(dict, {lower(level) : level \in targeted_levels}, 1)

\* The first for loop of load_tasks from the i-th row on.  A row holds its
\* TaskId, its Task Level and Base Duration cells as strings and, for its
\* Predecessors IDs cell, the list parse_dependencies makes of it.
RECURSIVE LoadRows(_, _, _)
LoadRows(rows, i, dict) ==
    IF i > Len(rows) THEN [error |-> "", tasks |-> dict]
    ELSE LET row == rows[i]
             level == strip(row.level)
             base_hours == parse_duration(strip(row.base_duration))
         IN IF row.task_id = "" \/ TaskIndex(dict, row.task_id) # 0 \/ level = <<>>
               \/ base_hours.error # ""
            THEN [error |-> "ValueError", tasks |-> dict]
            ELSE LoadRows(rows, i + 1,
                     Append(dict, Task(row.task_id, level, base_hours.hours,
                                      row.predecessors)))

load_tasks(rows, targeted_levels, ignore_missing) ==
    LET loaded == LoadRows(rows, 1, <<>>)
        dict == loaded.tasks
        missing == UNION {{dict[i].predecessors[k].pred_id :
                              k \in 1..Len(dict[i].predecessors)} : i \in 1..Len(dict)}
                   \ {dict[i].task_id : i \in 1..Len(dict)}
        filtered == [i \in 1..Len(dict) |->
                        [dict[i] EXCEPT !.predecessors =
                            SelectSeq(dict[i].predecessors,
                                LAMBDA dep : TaskIndex(dict, dep.pred_id) # 0)]]
    IN IF loaded.error # "" THEN [error |-> loaded.error, tasks |-> <<>>, missing |-> {}]
       ELSE IF missing # {} /\ ~ignore_missing
       THEN [error |-> "ValueError", tasks |-> <<>>, missing |-> missing]
       ELSE [error |-> "",
             tasks |-> compute_effective_durations(filtered, targeted_levels),
             missing |-> missing]

\* The (task_id, dep) pairs of every dependency, in the order the loops over
\* tasks.values() and task.predecessors meet them, from the i-th task on.
RECURSIVE DependencyPairs(_, _)
DependencyPairs(dict, i) ==
    IF i > Len(dict) THEN <<>>
    ELSE [k \in 1..Len(dict[i].predecessors) |->
             [task_id |-> dict[i].task_id, dep |-> dict[i].predecessors[k]]]
         \o DependencyPairs(dict, i + 1)

\* successors[task_id], adjacency[task_id] and _successors_for(task, tasks)
SuccessorsFor(dict, task_id) ==
    SelectSeq(DependencyPairs(dict, 1), LAMBDA pair : pair.dep.pred_id = task_id)

\* The for loop over adjacency[current] of ScheduleBuilder._topological_order
RECURSIVE VisitNeighbors(_, _, _, _)
VisitNeighbors(neighbors, k, indegree, queue) ==
    IF k > Len(neighbors) THEN [indegree |-> indegree, queue |-> queue]
    ELSE LET neighbor == neighbors[k].task_id
             degree == indegree[neighbor] - 1
         IN VisitNeighbors(neighbors, k + 1, [indegree EXCEPT ![neighbor] = degree],
                IF degree = 0 THEN Append(queue, neighbor) ELSE queue)

\* The while loop of ScheduleBuilder._topological_order: queue.pop() takes
\* the last element.
RECURSIVE PopLoop(_, _, _, _)
PopLoop(dict, indegree, queue, sorted) ==
    IF queue = <<>> THEN sorted
    ELSE LET current == queue[Len(queue)]
             visited == VisitNeighbors(SuccessorsFor(dict, current), 1, indegree,
                            SubSeq(queue, 1, Len(queue) - 1))
         IN PopLoop(dict, visited.indegree, visited.queue, Append(sorted, current))

ScheduleBuilder_topological_order(dict) ==
    LET ids == {dict[i].task_id : i \in 1..Len(dict)}
        indegree == [id \in ids |-> Len(dict[TaskIndex(dict, id)].predecessors)]
        queue == SelectSeq([i \in 1..Len(dict) |-> dict[i].task_id],
                     LAMBDA id : indegree[id] = 0)
        sorted == PopLoop(dict, indegree, queue, <<>>)
    IN IF \E i \in 1..Len(dict) : \E k \in 1..Len(dict[i].predecessors) :
              dict[i].predecessors[k].pred_id \notin ids
       THEN [error |-> "ValueError", order |-> <<>>]
       ELSE IF Len(sorted) # Len(dict) THEN [error |-> "ValueError", order |-> <<>>]
       ELSE [error |-> "", order |-> sorted]

\* ScheduleBuilder._forward_pass from the n-th task of the order on.
RECURSIVE ScheduleBuilder_forward_pass(_, _, _)
ScheduleBuilder_forward_pass(sorted, dict, n) ==
    IF n > Len(sorted) THEN dict
    ELSE LET i == TaskIndex(dict, sorted[n])
             task == dict[i]
             candidates ==
                 {LET dep == task.predecessors[k]
                      pred == dict[TaskIndex(dict, dep.pred_id)]
                  IN IF dep.dep_type = "FS" THEN pred.ef + dep.lag_hours
                     ELSE IF dep.dep_type = "SS" THEN pred.es + dep.lag_hours
                     ELSE IF dep.dep_type = "FF"
                     THEN pred.ef + dep.lag_hours - task.effective_duration_hours
                     ELSE pred.es + dep.lag_hours - task.effective_duration_hours :
                  k \in 1..Len(task.predecessors)}
             es == SetMax(candidates \cup {0})
         IN ScheduleBuilder_forward_pass(sorted,
                [dict EXCEPT ![i].es = es,
                             ![i].ef = es + task.effective_duration_hours], n + 1)

\* The body of the for loop of ScheduleBuilder._backward_pass: lf and ls of
\* task (cps_scheduler.py 176-194).
LatestDates(dict, task, project_finish) ==
    LET duration == task.effective_duration_hours
        records == SuccessorsFor(dict, task.task_id)
        Succ(k) == dict[TaskIndex(dict, records[k].task_id)]
        lf_candidates ==
            {Succ(k).es - records[k].dep.lag_hours :
                k \in {j \in 1..Len(records) : records[j].dep.dep_type = "FS"}}
            \cup {Succ(k).ef - records[k].dep.lag_hours :
                k \in {j \in 1..Len(records) : records[j].dep.dep_type = "FF"}}
        ls_candidates ==
            {Succ(k).es - records[k].dep.lag_hours :
                k \in {j \in 1..Len(records) : records[j].dep.dep_type = "SS"}}
            \cup {Succ(k).ef - records[k].dep.lag_hours :
                k \in {j \in 1..Len(records) :
                          records[j].dep.dep_type \notin {"FS", "SS", "FF"}}}
        lf0 == IF lf_candidates # {} THEN SetMin(lf_candidates) ELSE project_finish
        ls0 == IF ls_candidates # {} THEN SetMin(ls_candidates) ELSE lf0 - duration
        ls == Min2(ls0, lf0 - duration)
    IN [lf |-> Min2(lf0, ls + duration), ls |-> ls]

\* ScheduleBuilder._backward_pass at the n-th task of the order, going down.
RECURSIVE ScheduleBuilder_backward_pass(_, _, _, _)
ScheduleBuilder_backward_pass(sorted, dict, project_finish, n) ==
    IF n < 1 THEN dict
    ELSE LET i == TaskIndex(dict, sorted[n])
             latest == LatestDates(dict, dict[i], project_finish)
         IN ScheduleBuilder_backward_pass(sorted,
                [dict EXCEPT ![i].lf = latest.lf, ![i].ls = latest.ls],
                project_finish, n - 1)

ScheduleBuilder_compute_slack(dict) ==
    [i \in 1..Len(dict) |->
        LET task == dict[i]
            records == SuccessorsFor(dict, task.task_id)
            total_slack == task.ls - task.es
            slack_candidates ==
                {LET succ == dict[TaskIndex(dict, records[k].task_id)]
                     dep == records[k].dep
                 IN IF dep.dep_type = "FS" THEN succ.es - (task.ef + dep.lag_hours)
                    ELSE IF dep.dep_type = "SS" THEN succ.es - (task.es + dep.lag_hours)
                    ELSE IF dep.dep_type = "FF" THEN succ.ef - (task.ef + dep.lag_hours)
                    ELSE succ.ef - (task.es + dep.lag_hours) :
                 k \in 1..Len(records)}
        IN [task EXCEPT !.total_slack = total_slack,
                        !.free_slack = IF slack_candidates # {}
                                       THEN SetMin(slack_candidates)
                                       ELSE total_slack]]

\* ScheduleBuilder.build(tasks)
build(dict) ==
    LET sorted == ScheduleBuilder_topological_order(dict)
        forward == ScheduleBuilder_forward_pass(sorted.order, dict, 1)
        project_finish == SetMax({forward[i].ef : i \in 1..Len(forward)} \cup {0})
        backward == ScheduleBuilder_backward_pass(sorted.order, forward,
                        project_finish, Len(sorted.order))
    IN IF sorted.error # "" THEN [error |-> sorted.error, tasks |-> dict]
       ELSE [error |-> "", tasks |-> ScheduleBuilder_compute_slack(backward)]

\* The rows tried: tasks A, B and C in this order, each at level L3 or L4.
\* A has no predecessor, or B, or a task Z that is in no row; B has none or
\* A; C has none, or A or B, or two of them; level L4 is targeted.
TaskIds == <<"A", "B", "C">>

RowLevels == {<<"L", "3">>, <<"L", "4">>}

Links == {<<"FS", 0>>, <<"FS", 2 * HoursScale>>, <<"SS", 0>>, <<"FF", 0>>, <<"SF", 0>>}

RowDependencies(task_id) ==
    IF task_id = "A"
    THEN {<<>>, <<Dependency("B", "FS", 0)>>, <<Dependency("Z", "FS", 0)>>}
    ELSE IF task_id = "B"
    THEN {<<>>, <<Dependency("A", "FS", 0)>>, <<Dependency("A", "FS", 2 * HoursScale)>>}
    ELSE {<<>>, <<Dependency("A", "FS", 0), Dependency("B", "FS", 0)>>,
          <<Dependency("A", "FS", 0), Dependency("A", "SS", 0)>>}
         \cup {<<Dependency(pred_id, link[1], link[2])>> :
                  pred_id \in {"A", "B"}, link \in Links}

InitScheduler ==
    /\ IdleCalculator
    /\ pc = "scheduler"
    /\ calendar_call = NoCalendarCall
    /\ \E levels \in [1..3 -> RowLevels] :
         \E b \in {<<"2", "h">>, <<"1", "d">>} :
           \E a \in RowDependencies("A") : \E bb \in RowDependencies("B") :
             \E c \in RowDependencies("C") : \E ignore_missing \in BOOLEAN :
               scheduler =
                 [at |-> "load_tasks",
                  rows |-> <<[task_id |-> "A", level |-> levels[1],
                              base_duration |-> <<"1", "h">>, predecessors |-> a],
                             [task_id |-> "B", level |-> levels[2],
                              base_duration |-> b, predecessors |-> bb],
                             [task_id |-> "C", level |-> levels[3],
                              base_duration |-> <<" ", "0", ".", "5", "D", "?">>,
                              predecessors |-> c]>>,
                  targeted_levels |-> {<<"l", "4">>},
                  ignore_missing |-> ignore_missing,
                  tasks |-> <<>>, missing |-> {}]

\* tasks, missing = load_tasks(rows, targeted_levels, ignore_missing)
LoadTasks ==
    /\ scheduler.at = "load_tasks"
    /\ LET loaded == load_tasks(scheduler.rows, scheduler.targeted_levels,
                         scheduler.ignore_missing)
       IN scheduler' = [scheduler EXCEPT
                           !.at = IF loaded.error # "" THEN loaded.error ELSE "loaded",
                           !.tasks = loaded.tasks,
                           !.missing = loaded.missing]
    /\ UNCHANGED calculator_vars

\* ScheduleBuilder(calendar).build(tasks)
Build ==
    /\ scheduler.at = "loaded"
    /\ LET built == build(scheduler.tasks)
       IN scheduler' = [scheduler EXCEPT
                           !.at = IF built.error # "" THEN built.error ELSE "built",
                           !.tasks = built.tasks]
    /\ UNCHANGED calculator_vars

NextScheduler ==
    \/ LoadTasks
    \/ Build

SpecScheduler == InitScheduler /\ [][NextScheduler]_vars

(***************************************************************************)
(* Properties                                                              *)
(***************************************************************************)
\* <<predecessor_uid, uid>> for every dependency the tasks still carry
RetainedEdges ==
    UNION {{<<heap[o].dependencies[k].predecessor_uid, heap[o].uid>> :
               k \in 1..Len(heap[o].dependencies)} : o \in Range(tasks)}

\* The uids reached from the set S along the edges E, S included
RECURSIVE ReachedFrom(_, _)
ReachedFrom(E, S) ==
    LET T == S \cup {e[2] : e \in {x \in E : x[1] \in S}}
    IN IF T = S THEN S ELSE ReachedFrom(E, T)

HasCycle(E) == \E e \in E : e[1] \in ReachedFrom(E, {e[2]})

AfterResolve == {"order", "start", "forward", "backward", "assemble", "returned"}

InputUids == {heap[o].uid : o \in Range(task_specs)}

DuplicateUids ==
    \E i, j \in 1..Len(task_specs) : i < j /\ heap[task_specs[i]].uid = heap[task_specs[j]].uid

UnsupportedRelationGiven ==
    \E o \in Range(task_specs) : \E k \in 1..Len(heap[o].dependencies) :
        RelationUpper(heap[o].dependencies[k]) \notin {"FS", "SS", "FF", "SF"}

PositionIn(seq, uid) == CHOOSE k \in 1..Len(seq) : heap[seq[k].spec].uid = uid

\* C1: once _resolve_cycles has returned, the dependencies the tasks retain
\* form no directed cycle.
C1_ResolvedGraphAcyclic ==
    pc \in AfterResolve => ~HasCycle(RetainedEdges)

\* C1 witness: _resolve_cycles has returned after breaking two cycles, one of
\* them a dependency of a task on itself.
C1_Witness ==
    /\ pc = "order"
    /\ Len(cycle_resolutions) >= 2
    /\ \E k \in 1..Len(cycle_resolutions) :
         cycle_resolutions[k].removed_dependency.predecessor_uid
             = cycle_resolutions[k].removed_from_task_uid

\* C2: a call on a non-empty list of tasks with unique uids and supported
\* relations does not raise, missing predecessors and cycles included; the
\* tasks of the result are the input uids, each once, and every retained
\* dependency has its predecessor before its task.
C2_CompleteTopologicalResult ==
    /\ pc = "raised" => (DuplicateUids \/ task_specs = <<>> \/ UnsupportedRelationGiven)
    /\ pc = "returned" =>
         /\ Len(result.tasks) = Len(task_specs)
         /\ {heap[result.tasks[k].spec].uid : k \in 1..Len(result.tasks)} = InputUids
         /\ \A e \in RetainedEdges :
              /\ e[1] \in InputUids
              /\ PositionIn(result.tasks, e[1]) < PositionIn(result.tasks, e[2])

\* C2 witness: a result for three tasks after a missing predecessor was
\* pruned and a cycle was broken, with a dependency retained.
C2_Witness ==
    /\ pc = "returned"
    /\ Len(result.tasks) = 3
    /\ result.dependency_issues # <<>>
    /\ result.cycle_resolutions # <<>>
    /\ RetainedEdges # {}

\* C9: no step of calculate_schedule changes the caller's list or any
\* TaskSpec of it (its fields, its dependency list).
C9_CallerTasksUnchanged ==
    [][/\ task_specs' = task_specs
       /\ \A o \in Range(task_specs) : heap'[o] = heap[o]]_vars

\* C9 witness: the call raised (an unsupported relation) after a missing
\* predecessor was pruned and a cycle edge was removed from the clones.
C9_Witness ==
    /\ pc = "raised"
    /\ dependency_issues # <<>>
    /\ cycle_resolutions # <<>>
    /\ \E i \in 1..Len(task_specs) :
         Len(heap[tasks[i]].dependencies) < Len(heap[task_specs[i]].dependencies)

\* C10: calculate_schedule leaves the file system as it found it (until the
\* caller exports the result with to_csv).
C10_FileSystemUnchanged == pc # "csv" => files = {}

Unconstrained == \A o \in Range(task_specs) : heap[o].constraint_type = ""

\* C3: in a returned schedule every retained FS dependency of a task t on p
\* with lag L has t.earliest_start >=
\* align_start(add_work_duration(p.earliest_finish, L)).
C3_FinishToStartRespected ==
    pc = "returned" =>
        \A o \in Range(tasks) : \A k \in 1..Len(heap[o].dependencies) :
            LET d == heap[o].dependencies[k]
            IN RelationUpper(d) = "FS" =>
                 scheduled[heap[o].uid].earliest_start >=
                     align_start(add_work_duration(
                         scheduled[d.predecessor_uid].earliest_finish, d.lag_days))

\* C4: in a returned schedule every task has latest_start >= earliest_start
\* and latest_finish >= earliest_finish.
C4_LatestNotBeforeEarliest ==
    pc = "returned" =>
        \A k \in 1..Len(result.tasks) :
            /\ result.tasks[k].latest_start >= result.tasks[k].earliest_start
            /\ result.tasks[k].latest_finish >= result.tasks[k].earliest_finish

\* C5: in a returned schedule every task has earliest_finish =
\* add_work_duration(earliest_start, duration_days), whatever its constraint.
C5_FinishIsStartPlusDuration ==
    pc = "returned" =>
        \A k \in 1..Len(result.tasks) :
            result.tasks[k].earliest_finish =
                add_work_duration(result.tasks[k].earliest_start,
                    heap[result.tasks[k].spec].duration_days)

\* C6: when no task carries a constraint, project_finish is the greatest
\* latest_finish and also the greatest earliest_finish of the tasks.
C6_ProjectFinishIsLastFinish ==
    (pc = "returned" /\ Unconstrained) =>
        /\ result.project_finish =
               SetMax({result.tasks[k].latest_finish : k \in 1..Len(result.tasks)})
        /\ result.project_finish =
               SetMax({result.tasks[k].earliest_finish : k \in 1..Len(result.tasks)})

CriticalUids ==
    {heap[result.tasks[k].spec].uid :
        k \in {i \in 1..Len(result.tasks) : is_critical(result.tasks[i])}}

\* C7: a returned schedule has a chain of critical tasks, each linked to the
\* next by a retained dependency, from a task without retained predecessor
\* to a task without successor.
C7_CriticalChainExists ==
    pc = "returned" =>
        \E first \in CriticalUids :
            /\ \A e \in RetainedEdges : e[2] # first
            /\ \E last \in ReachedFrom(
                                {e \in RetainedEdges :
                                    e[1] \in CriticalUids /\ e[2] \in CriticalUids},
                                {first}) :
                   \A e \in RetainedEdges : e[1] # last

\* C8: in a returned schedule every task's total_float_hours is
\* work_hours_between(earliest_start, latest_start), is not negative, and the
\* task is critical exactly when the float is zero (below 1e-4 hours).
C8_FloatIsWorkingHoursToLatestStart ==
    pc = "returned" =>
        \A k \in 1..Len(result.tasks) :
            LET t == result.tasks[k]
            IN /\ t.total_float_hours = work_hours_between(t.earliest_start, t.latest_start)
               /\ t.total_float_hours >= 0
               /\ is_critical(t) <=> (t.total_float_hours = 0)

\* C8 witness: a returned schedule with a critical task, a task with float,
\* and a task whose latest_start is before its earliest_start.
C8_Witness ==
    /\ pc = "returned"
    /\ \E k \in 1..Len(result.tasks) : result.tasks[k].total_float_hours > 0
    /\ \E k \in 1..Len(result.tasks) :
         /\ is_critical(result.tasks[k])
         /\ result.tasks[k].latest_start < result.tasks[k].earliest_start

\* The number of dependencies equal to d that the task of uid u carries in
\* the list ts
DependencyCount(ts, u, d) ==
    Cardinality({ik \in UNION {{<<i, k>> : k \in 1..Len(heap[ts[i]].dependencies)} :
                                   i \in 1..Len(ts)} :
                    /\ heap[ts[ik[1]]].uid = u
                    /\ heap[ts[ik[1]]].dependencies[ik[2]] = d})

IssueCount(u, d) ==
    Cardinality({k \in 1..Len(dependency_issues) :
                    /\ dependency_issues[k].task_uid = u
                    /\ dependency_issues[k].dependency = d})

ResolutionCount(u, d) ==
    Cardinality({k \in 1..Len(cycle_resolutions) :
                    /\ cycle_resolutions[k].removed_from_task_uid = u
                    /\ cycle_resolutions[k].removed_dependency = d})

InputDependencies ==
    UNION {Range(heap[o].dependencies) : o \in Range(task_specs)}

\* C11: once the graph is normalised, every dependency of every input task
\* is, as many times as the input lists it, either retained, or reported in
\* dependency_issues (exactly when its predecessor_uid is no input uid), or
\* reported in cycle_resolutions; no retained dependency refers to an absent
\* uid.
C11_DependenciesAccountedFor ==
    pc \in AfterResolve =>
        /\ \A u \in InputUids : \A d \in InputDependencies :
             /\ DependencyCount(task_specs, u, d) =
                    DependencyCount(tasks, u, d) + IssueCount(u, d) + ResolutionCount(u, d)
             /\ IssueCount(u, d) =
                    IF d.predecessor_uid \in InputUids THEN 0
                    ELSE DependencyCount(task_specs, u, d)
        /\ Len(dependency_issues) + Len(cycle_resolutions)
               + Cardinality(UNION {{<<i, k>> : k \in 1..Len(heap[tasks[i]].dependencies)} :
                                       i \in 1..Len(tasks)})
             = Cardinality(UNION {{<<i, k>> : k \in 1..Len(heap[task_specs[i]].dependencies)} :
                                     i \in 1..Len(task_specs)})
        /\ \A e \in RetainedEdges : e[1] \in InputUids

\* C11 witness: a result where a task listed the same dependency twice and
\* lost it to a cycle, and another dependency was pruned for its missing
\* predecessor.
C11_Witness ==
    /\ pc = "returned"
    /\ dependency_issues # <<>>
    /\ \E k \in 1..Len(cycle_resolutions) :
         DependencyCount(task_specs, cycle_resolutions[k].removed_from_task_uid,
             cycle_resolutions[k].removed_dependency) = 2

\* C12: a call on an input with a dependency whose relation is outside FS,
\* SS, FF, SF returns no ScheduleResult.
C12_UnsupportedRelationRaises ==
    UnsupportedRelationGiven => pc \notin {"returned", "rows", "csv"}

\* A working instant: not on a weekend day, workday_start <= time < workday_end
WorkingInstant(t) ==
    /\ Weekday(DateOf(t)) \notin weekend_days
    /\ TimeOf(t) >= workday_start
    /\ TimeOf(t) < workday_end

\* C13: from a working instant t and for h >= 0,
\* work_hours_between(t, add_work_hours(t, h)) = h.
C13_AddThenMeasure ==
    (calendar_call.measured # None /\ WorkingInstant(calendar_call.moment)) =>
        calendar_call.measured = calendar_call.hours

\* C13 witness: more than two weeks of working time added to a Friday
\* afternoon and measured back.
C13_Witness ==
    /\ calendar_call.measured # None
    /\ Weekday(DateOf(calendar_call.moment)) = 4
    /\ TimeOf(calendar_call.moment) = 16 * 4 + 3
    /\ calendar_call.hours > 2 * 5 * hours_per_day
    /\ calendar_call.hours % hours_per_day = 2

\* C14: for every instant t and h >= 0,
\* subtract_work_hours(add_work_hours(t, h), h) = align_start(t).
C14_AddThenSubtract ==
    calendar_call.restored # None =>
        calendar_call.restored = align_start(calendar_call.moment)

\* C14 witness: working time that crosses a weekend added to a Saturday and
\* subtracted again.
C14_Witness ==
    /\ calendar_call.restored # None
    /\ Weekday(DateOf(calendar_call.moment)) = 5
    /\ calendar_call.hours > 5 * hours_per_day
    /\ calendar_call.restored # calendar_call.moment

\* Scenario 3 of the spec: T1 of one day, T2 of one day depending on T1 by SS
\* with a lag of a quarter day, from Monday 08:00
StartToStartScenario ==
    /\ Len(task_specs) = 2
    /\ heap[task_specs[1]] = TaskSpec(1, hours_per_day, <<>>, "", None, None)
    /\ heap[task_specs[2]] =
           TaskSpec(2, hours_per_day,
               <<DependencySpec(1, "SS", hours_per_day \div 4)>>, "", None, None)
    /\ project_start_arg = At(BaseDay, 8, 0)

\* C15 as stated: in that scenario T2 has earliest_start Monday 10:00 and
\* earliest_finish Tuesday 10:00.
C15_StartToStartAtTen ==
    (StartToStartScenario /\ pc = "returned") =>
        /\ result.tasks[2].earliest_start = At(BaseDay, 10, 0)
        /\ result.tasks[2].earliest_finish = At(BaseDay + 1, 10, 0)

\* C15 as amended: in that scenario T2 has earliest_start Monday 10:15 and
\* earliest_finish Tuesday 10:15 (a quarter of the nine-hour workday is
\* 2 h 15 min), T1 running Monday 08:00 to 17:00.
C15_StartToStartAtQuarterPastTen ==
    (StartToStartScenario /\ pc = "returned") =>
        /\ heap[result.tasks[1].spec].uid = 1
        /\ result.tasks[1].earliest_start = At(BaseDay, 8, 0)
        /\ result.tasks[1].earliest_finish = At(BaseDay, 17, 0)
        /\ heap[result.tasks[2].spec].uid = 2
        /\ result.tasks[2].earliest_start = At(BaseDay, 10, 15)
        /\ result.tasks[2].earliest_finish = At(BaseDay + 1, 10, 15)

\* C15 witness: the schedule of the scenario has been returned.
C15_Witness ==
    /\ StartToStartScenario
    /\ pc = "returned"
    /\ Len(result.tasks) = 2

\* Scenario 6 of the spec: T1, T2, T3 in that order, T2 depending on T1, T3
\* on T2 and T1 on T3, each by one FS dependency
ThreeTaskCycle ==
    /\ Len(task_specs) = 3
    /\ \A i \in 1..3 : heap[task_specs[i]].uid = i
    /\ \A i \in 1..3 :
         /\ Len(heap[task_specs[i]].dependencies) = 1
         /\ RelationUpper(heap[task_specs[i]].dependencies[1]) = "FS"
         /\ heap[task_specs[i]].dependencies[1].lag_days = 0
    /\ heap[task_specs[1]].dependencies[1].predecessor_uid = 3
    /\ heap[task_specs[2]].dependencies[1].predecessor_uid = 1
    /\ heap[task_specs[3]].dependencies[1].predecessor_uid = 2

\* C16: on that input the call does not raise, and its result has exactly
\* one CycleResolution, which removes the dependency of T1 on T3 and reports
\* the cycle [1, 2, 3, 1]; T2 keeps its dependency on T1, T3 its dependency
\* on T2, and all three tasks are scheduled.
C16_OneBackEdgeRemoved ==
    ThreeTaskCycle =>
        /\ pc # "raised"
        /\ pc = "returned" =>
             /\ Len(result.cycle_resolutions) = 1
             /\ result.cycle_resolutions[1].removed_from_task_uid = 1
             /\ result.cycle_resolutions[1].removed_dependency = DependencySpec(3, "FS", 0)
             /\ result.cycle_resolutions[1].cycle_task_uids = <<1, 2, 3, 1>>
             /\ result.dependency_issues = <<>>
             /\ heap[lookup[1]].dependencies = <<>>
             /\ heap[lookup[2]].dependencies = <<DependencySpec(1, "FS", 0)>>
             /\ heap[lookup[3]].dependencies = <<DependencySpec(2, "FS", 0)>>
             /\ {heap[result.tasks[k].spec].uid : k \in 1..Len(result.tasks)} = {1, 2, 3}
             /\ Len(result.tasks) = 3

\* C16 witness: the schedule of the three-task cycle has been returned.
C16_Witness ==
    /\ ThreeTaskCycle
    /\ pc = "returned"
    /\ result.cycle_resolutions # <<>>

\* C17 as stated: once the three-task cycle (FS, no lag) is resolved, the
\* tasks of the chain T1 -> T2 -> T3 have a total_float_hours that is not 0.
C17_ChainHasFloat ==
    (ThreeTaskCycle /\ pc = "returned") =>
        \A k \in 1..Len(result.tasks) : result.tasks[k].total_float_hours # 0

\* C17 as amended: once the three-task cycle (FS, no lag) is resolved, the
\* three tasks of the chain T1 -> T2 -> T3 all have total_float_hours = 0 and
\* are critical, whatever their durations.
C17_ChainIsCritical ==
    (ThreeTaskCycle /\ pc = "returned") =>
        /\ Len(result.tasks) = 3
        /\ \A k \in 1..Len(result.tasks) :
             /\ result.tasks[k].total_float_hours = 0
             /\ is_critical(result.tasks[k])

\* C17 witness: the schedule of the resolved cycle has been returned, for
\* tasks of different durations, one of them a milestone.
C17_Witness ==
    /\ ThreeTaskCycle
    /\ pc = "returned"
    /\ Len(result.cycle_resolutions) = 1
    /\ heap[task_specs[1]].duration_days = 0
    /\ heap[task_specs[2]].duration_days = 2 * hours_per_day
    /\ heap[task_specs[3]].duration_days = hours_per_day \div 2

\* The dependencies the tasks of the list ts carry, as <<task, position>>
DependencySlots(ts) ==
    UNION {{<<i, k>> : k \in 1..Len(heap[ts[i]].dependencies)} : i \in 1..Len(ts)}

\* One task of the working list loses exactly one dependency, the others of
\* its list keep their order, and no other task changes.
OneDependencyRemoved ==
    \E i \in 1..Len(tasks) :
        /\ \E k \in 1..Len(heap[tasks[i]].dependencies) :
               heap'[tasks[i]].dependencies =
                   SubSeq(heap[tasks[i]].dependencies, 1, k - 1)
                   \o SubSeq(heap[tasks[i]].dependencies, k + 1,
                          Len(heap[tasks[i]].dependencies))
        /\ \A j \in 1..Len(tasks) : j # i => heap'[tasks[j]] = heap[tasks[j]]

\* C18: every iteration of the loop of _resolve_cycles that does not leave
\* the loop removes exactly one dependency from exactly one task, leaves the
\* other dependency lists as they are and records one resolution; the
\* iterations made (one per resolution) never number more than the
\* dependencies of the input, so the loop cannot go on for ever.
C18_ResolveLoopTerminates ==
    /\ [][(pc = "resolve" /\ pc' = "resolve") =>
              /\ OneDependencyRemoved
              /\ Len(cycle_resolutions') = Len(cycle_resolutions) + 1]_vars
    /\ [](Len(cycle_resolutions) <= Cardinality(DependencySlots(task_specs)))

\* C18 witness: the loop was left after three iterations that each removed a
\* dependency, on an input of three dependencies.
C18_Witness ==
    /\ pc = "order"
    /\ Len(cycle_resolutions) = 3
    /\ Cardinality(DependencySlots(task_specs)) = 3

ListingOrders(n) == {p \in [1..n -> 1..n] : \A i, j \in 1..n : p[i] = p[j] => i = j}

\* The dependencies of a task in every order
DependencyOrders(dependencies) ==
    {[k \in 1..Len(dependencies) |-> dependencies[p[k]]] :
        p \in ListingOrders(Len(dependencies))}

\* The caller's tasks listed in every order, each with its dependencies
\* listed in every order
Relistings ==
    LET n == Len(task_specs)
        specs == [i \in 1..n |-> heap[task_specs[i]]]
        orders == {f \in [1..n -> UNION {DependencyOrders(specs[i].dependencies) :
                                            i \in 1..n}] :
                      \A i \in 1..n : f[i] \in DependencyOrders(specs[i].dependencies)}
    IN {[i \in 1..n |-> [specs[p[i]] EXCEPT !.dependencies = f[p[i]]]] :
           p \in ListingOrders(n), f \in orders}

\* C19: when the input has no cycle, a call on the same tasks listed in any
\* other order, with each task's dependencies listed in any other order,
\* gets the same topological order of uids as this call.
C19_OrderIndependentOfListing ==
    (pc = "start" /\ cycle_resolutions = <<>>) =>
        \A relisted \in Relistings :
            OrderOfCall(relisted) = [raised |-> FALSE, order |-> order]

\* C19 witness: an order computed for three tasks listed by descending uid,
\* one of them with two dependencies on different tasks, that is not the
\* order of the list.
C19_Witness ==
    /\ pc = "start"
    /\ cycle_resolutions = <<>>
    /\ Len(tasks) = 3
    /\ heap[task_specs[1]].uid = 3
    /\ order # [i \in 1..3 |-> heap[task_specs[i]].uid]
    /\ \E o \in Range(tasks) :
         Cardinality({heap[o].dependencies[k].predecessor_uid :
                         k \in 1..Len(heap[o].dependencies)}) = 2

\* The number a decimal string stands for
RECURSIVE DecimalValue(_)
DecimalValue(digits) ==
    IF digits = <<>> THEN 0
    ELSE 10 * DecimalValue(Front(digits))
         + (CHOOSE d \in 0..9 : Digit(d) = digits[Len(digits)])

DateColumns == {"earliest_start", "earliest_finish", "latest_start", "latest_finish"}

\* rows are the rows of the tasks of the result, one each and in their order
RowsOfResult(rows) ==
    /\ Len(rows) = Len(result.tasks)
    /\ \A k \in 1..Len(rows) :
         /\ DecimalValue(rows[k].uid) = heap[result.tasks[k].spec].uid
         /\ rows[k].name = heap[result.tasks[k].spec].name
         /\ DateColumns \subseteq DOMAIN rows[k]
         /\ rows[k].earliest_start = isoformat(result.tasks[k].earliest_start)
         /\ rows[k].earliest_finish = isoformat(result.tasks[k].earliest_finish)
         /\ rows[k].latest_start = isoformat(result.tasks[k].latest_start)
         /\ rows[k].latest_finish = isoformat(result.tasks[k].latest_finish)

\* C20: to_rows gives one row per task of result.tasks, in the same order,
\* with the task's uid and name and the four date columns; to_csv writes
\* those rows (under a header that names the four columns) to the
\* destination and returns the destination.
C20_RowsFollowTasks ==
    /\ pc = "rows" => RowsOfResult(export.rows)
    /\ pc = "csv" =>
         /\ RowsOfResult(export.written.rows)
         /\ DateColumns \cup {"uid", "name"} \subseteq Range(export.written.header)
         /\ export.written.path = export.destination
         /\ export.returned = export.destination
         /\ export.destination \in files

\* C20 witness: the schedule of three tasks whose topological order is not
\* the order of their uids has been written to a file in a directory.
C20_Witness ==
    /\ pc = "csv"
    /\ export.returned = "reports/schedule.csv"
    /\ Len(export.written.rows) = 3
    /\ export.written.rows[1].uid # <<"1">>
    /\ export.written.rows[1].earliest_finish # export.written.rows[3].earliest_finish

\* C21: in a returned schedule every task has earliest_finish >=
\* earliest_start and latest_finish >= latest_start.
C21_FinishNotBeforeStart ==
    pc = "returned" =>
        \A k \in 1..Len(result.tasks) :
            /\ result.tasks[k].earliest_finish >= result.tasks[k].earliest_start
            /\ result.tasks[k].latest_finish >= result.tasks[k].latest_start

\* C22: in a returned schedule every task has
\* work_hours_between(earliest_start, earliest_finish) = duration_days *
\* hours_per_day, whatever its constraint.
C22_EarliestSpanIsDuration ==
    pc = "returned" =>
        \A k \in 1..Len(result.tasks) :
            work_hours_between(result.tasks[k].earliest_start,
                result.tasks[k].earliest_finish)
              = heap[result.tasks[k].spec].duration_days

\* C25: in a returned schedule a task with an FNET constraint and a
\* constraint date has earliest_finish >= align_finish(constraint_date).
C25_FinishNoEarlierThan ==
    pc = "returned" =>
        \A k \in 1..Len(result.tasks) :
            LET spec == heap[result.tasks[k].spec]
            IN (spec.constraint_type \in {"FINISH_NO_EARLIER_THAN", "FNET"}
                  /\ spec.constraint_date # None) =>
                 result.tasks[k].earliest_finish >= align_finish(spec.constraint_date)

\* C28: when no task carries a constraint, every task of a returned schedule
\* has earliest_start >= project_start.
C28_NoStartBeforeProjectStart ==
    (pc = "returned" /\ Unconstrained) =>
        \A k \in 1..Len(result.tasks) :
            result.tasks[k].earliest_start >= result.project_start

\* A returned must-finish-on task of positive duration whose finish is not
\* add_work_duration of its start (the finish was aligned to the start of a
\* working day), and a returned finish-no-earlier-than task of positive
\* duration that its constraint date moved.
C22_Witness ==
    /\ pc = "returned"
    /\ \E k \in 1..Len(result.tasks) :
         LET spec == heap[result.tasks[k].spec]
         IN /\ spec.constraint_type = "MFO"
            /\ spec.constraint_date # None
            /\ spec.duration_days > 0
            /\ result.tasks[k].earliest_finish
                 # add_work_duration(result.tasks[k].earliest_start, spec.duration_days)

\* C29: every CycleResolution the resolve loop records describes a cycle of
\* the graph as it was just before the removal: cycle_task_uids starts and
\* ends with removed_from_task_uid, each consecutive pair (a, b) of it is a
\* dependency of b on a held at that moment, and the predecessor of the
\* removed dependency is the second-to-last uid of cycle_task_uids.
C29_ResolutionIsCycle ==
    [][Len(cycle_resolutions') > Len(cycle_resolutions) =>
         LET resolution == cycle_resolutions'[Len(cycle_resolutions')]
             cycle == resolution.cycle_task_uids
         IN /\ Len(cycle_resolutions') = Len(cycle_resolutions) + 1
            /\ Len(cycle) >= 2
            /\ cycle[1] = resolution.removed_from_task_uid
            /\ cycle[Len(cycle)] = resolution.removed_from_task_uid
            /\ \A i \in 1..(Len(cycle) - 1) :
                 <<cycle[i], cycle[i + 1]>> \in RetainedEdges
            /\ resolution.removed_dependency.predecessor_uid = cycle[Len(cycle) - 1]]_vars

\* C29 witness: two cycles have been resolved, one of them through more than
\* one task.
C29_Witness ==
    /\ Len(cycle_resolutions) >= 2
    /\ \E k \in 1..Len(cycle_resolutions) :
         Len(cycle_resolutions[k].cycle_task_uids) >= 3

\* C24: align_finish only moves backwards: align_finish(t) <= t for every
\* instant t, also when t lies before workday_start on a working day.
C24_AlignFinishMovesBack ==
    calendar_call.aligned # None => calendar_call.aligned <= calendar_call.moment

\* C23: add_work_hours(t, h) terminates for every instant t, every h > 0
\* and every weekend_days tuple the constructor accepts: the search for the
\* next working day always finds one, so that the call never walks to the
\* last date and ends there with OverflowError instead of an instant.
C23_AddWorkHoursReturns ==
    calendar_call.at # "OverflowError"

\* On the default calendar the statements of add_work_hours taken one by one
\* return what the operator add_work_hours computes.
AddWorkHoursStepsAgree ==
    (calendar_call.at = "returned" /\ calendar_call.weekend_days = weekend_days) =>
        calendar_call.returned = add_work_hours(calendar_call.start, calendar_call.hours)

\* The magnitudes N and N.dd and the units the statements on parse_duration
\* are about, with the hundredths of an hour and the hours they stand for.
StatedMagnitudes ==
    {[text |-> <<"5">>, hundredths |-> 500],
     [text |-> <<"1", "2">>, hundredths |-> 1200],
     [text |-> <<"1", ".", "5">>, hundredths |-> 150],
     [text |-> <<"0", ".", "2", "5">>, hundredths |-> 25]}

StatedUnits ==
    {[text |-> <<"h">>, hours |-> 1], [text |-> <<"H">>, hours |-> 1],
     [text |-> <<"d">>, hours |-> 8], [text |-> <<"D">>, hours |-> 8],
     [text |-> <<"w">>, hours |-> 40], [text |-> <<"W">>, hours |-> 40],
     [text |-> <<"m", "o">>, hours |-> 160], [text |-> <<"M", "O">>, hours |-> 160],
     [text |-> <<"M", "o">>, hours |-> 160]}

ParsedWithUnit ==
    \A m \in StatedMagnitudes : \A u \in StatedUnits : \A q \in {<<>>, <<"?">>} :
        (scheduler.at # "parse_duration" /\ scheduler.value = m.text \o u.text \o q) =>
            /\ scheduler.at = "returned"
            /\ scheduler.hours = m.hundredths * u.hours

\* C27 as stated: parse_duration accepts a magnitude N or N.dd with an
\* optional unit h, d, w or mo (case-insensitive, possibly absent) and one
\* optional trailing "?", and returns hours with 1d = 8h, 1w = 40h and
\* 1mo = 160h.
C27_UnitMayBeAbsent ==
    /\ ParsedWithUnit
    /\ \A m \in StatedMagnitudes : \A q \in {<<>>, <<"?">>} :
         (scheduler.at # "parse_duration" /\ scheduler.value = m.text \o q) =>
             scheduler.at = "returned"

\* C27 amended: parse_duration accepts a magnitude N or N.dd followed by a
\* unit h, d, w or mo (case-insensitive) and one optional trailing "?", and
\* returns hours with 1d = 8h, 1w = 40h and 1mo = 160h; the unit is
\* required, a magnitude without a unit raises ValueError.
C27_UnitRequired ==
    /\ ParsedWithUnit
    /\ \A m \in StatedMagnitudes : \A q \in {<<>>, <<"?">>} :
         (scheduler.at # "parse_duration" /\ scheduler.value = m.text \o q) =>
             scheduler.at = "ValueError"

\* C27 witness: "1.5Mo?" has been parsed into 240 hours.
C27_Witness ==
    /\ scheduler.at = "returned"
    /\ scheduler.value = <<"1", ".", "5", "M", "o", "?">>
    /\ scheduler.hours = 240 * HoursScale

\* C26: after compute_effective_durations every task at a targeted level
\* has effective_duration_hours = max(base, sum of the final
\* effective_duration_hours of its distinct existing predecessors) and every
\* other task has effective = base, wherever its predecessors stand among
\* the rows.
C26_EffectiveDurationsSettled ==
    scheduler.at = "loaded" =>
        \A i \in 1..Len(scheduler.tasks) :
            LET task == scheduler.tasks[i]
                unique_preds == {task.predecessors[k].pred_id :
                                    k \in 1..Len(task.predecessors)}
                                \cap {scheduler.tasks[j].task_id :
                                         j \in 1..Len(scheduler.tasks)}
            IN task.effective_duration_hours =
                 IF lower(task.level) \in {lower(level) : level \in scheduler.targeted_levels}
                 THEN Max2(task.base_duration_hours,
                          SumEffective(scheduler.tasks, unique_preds))
                 ELSE task.base_duration_hours

\* C30: in a built schedule the backward pass works from the successors'
\* latest dates: a task whose successors are all finish-to-start has
\* lf = min over its successors of (successor.ls - lag).
C30_LatestFinishFromLatestStarts ==
    scheduler.at = "built" =>
        \A i \in 1..Len(scheduler.tasks) :
            LET task == scheduler.tasks[i]
                records == SuccessorsFor(scheduler.tasks, task.task_id)
            IN (records # <<>> /\ \A k \in 1..Len(records) : records[k].dep.dep_type = "FS") =>
                 task.lf = SetMin({scheduler.tasks[TaskIndex(scheduler.tasks,
                                       records[k].task_id)].ls
                                     - records[k].dep.lag_hours : k \in 1..Len(records)})

====
